---- MODULE Spec2Model ----
(***************************************************************************)
(* A model of the data-aggregation core of nocharts: the response cache    *)
(* and the fixed-window rate limiter (js/utils.js), the ticker grammar     *)
(* (js/utils.js, js/config.js), the provider adapters and the aggregator   *)
(* getComprehensiveStockData (api.js), and the Reddit token store.         *)
(*                                                                         *)
(* Time is Date.now() in milliseconds.  Strings that the code inspects     *)
(* character by character (tickers) are sequences of one-character         *)
(* strings; cache keys are built by concatenation as the code builds them. *)
(* Each action is one synchronous section of the event loop: a handler     *)
(* runs from its start, or from the arrival of the response it awaits, to  *)
(* its next await on the network.                                          *)
(***************************************************************************)
EXTENDS Integers, Sequences, FiniteSets, TLC

VARIABLES
    now,              \* Date.now()
    advances,         \* number of clock advances taken so far (bounded)
    cache,            \* utils.js `cache`: key -> [data, timestamp, ttl]
    requestCount,     \* utils.js `requestCount`
    lastRequestTime,  \* utils.js `lastRequestTime`
    mockMode,         \* CONFIG.MOCK_MODE
    mockData,         \* typeof MockData !== 'undefined' (mock-data.js is loaded)
    storedToken,      \* localStorage 'reddit_access_token' ("" when absent)
    tokenExpiry,      \* localStorage 'reddit_token_expiry' (0 when absent)
    urlHash,          \* window.location.hash: "none", "token" or "error"
    location,         \* window.location.href: "app" or "reddit_auth"
    calls,            \* the getComprehensiveStockData calls, by call slot
    slots,            \* the call slots in use
    started,          \* number of calls started so far (bounded)
    log,              \* observer: what the adapters did in the latest section
    op,               \* the last operation performed and what it returned
    written,          \* observer: per key, the last setCache call not cleared since
                      \* (for searchCompanies: the last 'Note' body seen)
    win,              \* observer: the rate window as a caller sees it
    input             \* the argument of the pure functions; the ticker in the page's URL

clockVars == <<now, advances>>
utilVars == <<cache, requestCount, lastRequestTime>>
pageVars == <<mockMode, mockData, storedToken, tokenExpiry, urlHash, location>>
callVars == <<calls, slots, started, log>>
obsVars == <<op, written, win, input>>
vars == <<clockVars, utilVars, pageVars, callVars, obsVars>>

-----------------------------------------------------------------------------
(* Bounds of the model *)

\* Date.now() when the page is loaded (any value beyond the first minute).
StartTime == 100000
\* The clock advances at most this many times in one behaviour.
MaxAdvances == 2
\* The amounts by which the clock advances between two operations.
TimeSteps == {30000, 30001, 1800000}
\* Calls beyond the cap that are tried in one rate window.
MaxDenied == 2
\* Longest input string tried on the ticker functions.
MaxInputLen == 6

-----------------------------------------------------------------------------
(* Configuration (CONFIG) *)

CACHE_DURATION == 30 * 60 * 1000
MAX_REQUESTS_PER_MINUTE == 20
CACHING_ENABLED == TRUE

\* JavaScript null, and the shape of an operation that has not happened
Null == [t |-> "null"]
NoOp == [name |-> "none"]

-----------------------------------------------------------------------------
(* utils.js: the cache *)

Item(data, t, ttl) == [data |-> data, timestamp |-> t, ttl |-> ttl]

\* cache.set(key, item) / cache.delete(key) on a Map
MapSet(c, key, item) == [k \in (DOMAIN c) \cup {key} |-> IF k = key THEN item ELSE c[k]]
MapDelete(c, key) == [k \in (DOMAIN c) \ {key} |-> c[k]]
EmptyMap == [k \in {} |-> Null]

\* setCache(key, data, ttl): the cache after the call at time t
setCache(c, key, data, ttl, t) ==
    IF ~CACHING_ENABLED THEN c
    ELSE MapSet(c, key, Item(data, t, ttl))

\* A cache whose entries expire as soon as their ttl has elapsed
ExpiredAtTtl(c, key, t) == key \in DOMAIN c /\ t - c[key].timestamp >= c[key].ttl

\* getCache(key): is the entry under key present and expired at time t
Expired(c, key, t) == key \in DOMAIN c /\ t - c[key].timestamp > c[key].ttl

\* getCache(key): the value returned at time t
getCache(c, key, t) ==
    IF ~CACHING_ENABLED THEN Null
    ELSE IF key \notin DOMAIN c THEN Null
    ELSE IF Expired(c, key, t) THEN Null
    ELSE c[key].data

\* A getCache that leaves expired entries in the map
getCacheKeep(c, key, t) == c

\* getCache(key): the cache after the call at time t (read-time eviction)
getCacheEvict(c, key, t) ==
    IF ~CACHING_ENABLED THEN c
    ELSE IF Expired(c, key, t) THEN MapDelete(c, key)
    ELSE c

\* clearCache(key) and clearCache()
clearCache(c, key) == MapDelete(c, key)
clearCacheAll(c) == EmptyMap

\* getCacheSize()
getCacheSize(c) == Cardinality(DOMAIN c)

-----------------------------------------------------------------------------
(* utils.js: the rate limiter *)

RateWindowMs == 60000

\* A limiter that lets one request more through in each window
checkRateLimitOneMore(rl, t) ==
    LET r == IF t - rl.last > RateWindowMs
             THEN [count |-> 0, last |-> t]
             ELSE [count |-> rl.count, last |-> rl.last]
    IN  IF r.count > MAX_REQUESTS_PER_MINUTE
        THEN [ok |-> FALSE, count |-> r.count, last |-> r.last]
        ELSE [ok |-> TRUE, count |-> r.count + 1, last |-> r.last]

\* A limiter whose refusal restarts the window
checkRateLimitTouching(rl, t) ==
    LET r == IF t - rl.last > RateWindowMs
             THEN [count |-> 0, last |-> t]
             ELSE [count |-> rl.count, last |-> rl.last]
    IN  IF r.count >= MAX_REQUESTS_PER_MINUTE
        THEN [ok |-> FALSE, count |-> r.count, last |-> t]
        ELSE [ok |-> TRUE, count |-> r.count + 1, last |-> r.last]

\* checkRateLimit() at time t on the limiter state rl = [count, last]:
\* the answer and the limiter state after the call
checkRateLimit(rl, t) ==
    LET r == IF t - rl.last > RateWindowMs
             THEN [count |-> 0, last |-> t]
             ELSE [count |-> rl.count, last |-> rl.last]
    IN  IF r.count >= MAX_REQUESTS_PER_MINUTE
        THEN [ok |-> FALSE, count |-> r.count, last |-> r.last]
        ELSE [ok |-> TRUE, count |-> r.count + 1, last |-> r.last]

Limiter == [count |-> requestCount, last |-> lastRequestTime]

-----------------------------------------------------------------------------
(* utils.js, config.js: the ticker grammar *)

LowerLetters == {"a"}
UpperLetters == {"A", "B"}
Whitespace == {" "}
Chars == LowerLetters \cup UpperLetters \cup Whitespace \cup {"1", "."}

Str(s) == [t |-> "string", s |-> s]
Num(n) == [t |-> "number", n |-> n]

\* !x for the values modelled: null/undefined, 0 and the empty string are falsy
Falsy(x) ==
    \/ x.t = "null"
    \/ (x.t = "number" /\ x.n = 0)
    \/ (x.t = "string" /\ x.s = <<>>)

\* String.prototype.trim
RECURSIVE TrimLeft(_)
TrimLeft(s) ==
    IF s # <<>> /\ Head(s) \in Whitespace THEN TrimLeft(Tail(s)) ELSE s
RECURSIVE TrimRight(_)
TrimRight(s) ==
    IF s # <<>> /\ s[Len(s)] \in Whitespace THEN TrimRight(SubSeq(s, 1, Len(s) - 1)) ELSE s
trim(s) == TrimRight(TrimLeft(s))

\* String.prototype.toUpperCase
UpperChar(c) == IF c = "a" THEN "A" ELSE c
toUpperCase(s) == [i \in 1..Len(s) |-> UpperChar(s[i])]

\* /^[A-Z]+$/.test(s)
OnlyLetters(s) == Len(s) >= 1 /\ \A i \in 1..Len(s) : s[i] \in UpperLetters

\* A validator without the upper length bound
isValidTickerAnyLength(x) ==
    IF Falsy(x) \/ x.t # "string" THEN FALSE
    ELSE OnlyLetters(toUpperCase(trim(x.s)))

\* isValidTicker(ticker)
isValidTicker(x) ==
    IF Falsy(x) \/ x.t # "string" THEN FALSE
    ELSE LET cleanTicker == toUpperCase(trim(x.s)) IN
         IF Len(cleanTicker) < 1 \/ Len(cleanTicker) > 5 THEN FALSE
         ELSE IF ~OnlyLetters(cleanTicker) THEN FALSE
         ELSE TRUE

\* formatTicker(ticker), for null or a string
formatTicker(x) ==
    IF Falsy(x) THEN <<>> ELSE toUpperCase(trim(x.s))

\* validateUserInput(input): the cleaned string, or null
validateUserInput(x) ==
    IF Falsy(x) \/ x.t # "string" THEN Null
    ELSE LET cleaned == toUpperCase(trim(x.s)) IN
         IF Len(cleaned) < 1 \/ Len(cleaned) > 5 THEN Null
         ELSE IF ~OnlyLetters(cleaned) THEN Null
         ELSE Str(cleaned)

-----------------------------------------------------------------------------
(* api.js: values on the wire and in the cache *)

\* Distinct payloads a provider may answer one request with.
Versions == {1}

EmptyList == [t |-> "list", from |-> "none", about |-> <<>>, v |-> 0]
List(from, about, v) == [t |-> "list", from |-> from, about |-> about, v |-> v]
Data(of, sym, v) == [t |-> "data", of |-> of, sym |-> sym, v |-> v]
ErrorBody(of) == [t |-> "error", of |-> of]
Sentinel(t) == [t |-> "time", at |-> t]

\* What the network can answer a Finnhub request with: a failed request (no
\* response, or a non-2xx status), a body with an error field, or data.
FinnhubResponses(of, sym) ==
    {[kind |-> "httperr", body |-> Null], [kind |-> "json", body |-> ErrorBody(of)]}
    \cup {[kind |-> "json", body |-> Data(of, sym, v)] : v \in Versions}

\* The profile request, made alone, is answered with each kind of failure;
\* the profile body carries the company name.
ProfileData(sym, name) == [t |-> "data", of |-> "profile", sym |-> sym, name |-> name]
ProfileResponses(sym) ==
    {[kind |-> "neterr", body |-> Null], [kind |-> "httperr", body |-> Null],
     [kind |-> "json", body |-> Null], [kind |-> "json", body |-> ErrorBody("profile")],
     [kind |-> "json", body |-> ProfileData(sym, <<"C", "o">>)]}

\* Reddit: a failed request, a body without data.children, or a listing.
RedditResponses(sym) ==
    {[kind |-> "httperr", body |-> Null], [kind |-> "json", body |-> Null]}
    \cup {[kind |-> "json", body |-> Data("reddit", sym, v)] : v \in Versions}

\* News API: a failed request, status 'error', a body without articles, or
\* articles.
NewsApiResponses(q) ==
    {[kind |-> "httperr", body |-> Null],
     [kind |-> "json", body |-> ErrorBody("newsapi")],
     [kind |-> "json", body |-> [t |-> "data", of |-> "newsapi", articles |-> Null]]}
    \cup {[kind |-> "json",
           body |-> [t |-> "data", of |-> "newsapi", articles |-> List("newsapi", q, v)]]
          : v \in Versions}

\* mock-data.js: MockData.getStockOverview / getStockQuote always resolve
MockValue(of, sym) == [t |-> "mock", of |-> of, sym |-> toUpperCase(sym)]

\* The adapters that fall back to MockData
MockFallbackOps == {"profile", "quote"}

\* Cache keys, as the template strings build them
KeyPrefix(of) ==
    CASE of = "profile" -> <<"finnhub_profile_">>
      [] of = "quote" -> <<"finnhub_quote_">>
      [] of = "financials" -> <<"finnhub_basic_financials_">>
      [] of = "earnings" -> <<"finnhub_earnings_">>
\* A cache key that leaves the ticker out
FinnhubKeyShared(of, sym) == KeyPrefix(of)
FinnhubKey(of, sym) == KeyPrefix(of) \o sym
NewsKey(sym, pageSize) == <<"company_news_">> \o sym \o <<"_", pageSize>>
RedditKey(sym, pageSize) == <<"reddit_news_">> \o sym \o <<"_", pageSize>>
RateLimitKey(key) == <<"rate_limit_">> \o key
EarningsCalendarKey(sym) == <<"earnings_">> \o sym

\* getComprehensiveStockData asks for 5 news items
PageSize == "5"

-----------------------------------------------------------------------------
(* The environment a synchronous section runs in: the module state of       *)
(* utils.js, localStorage, the window, and the observer's log.              *)

Env ==
    [rl |-> Limiter, cache |-> cache, tok |-> storedToken, exp |-> tokenExpiry,
     hash |-> urlHash, loc |-> location, log |-> {}]

SetEnv(E) ==
    /\ requestCount' = E.rl.count
    /\ lastRequestTime' = E.rl.last
    /\ cache' = E.cache
    /\ storedToken' = E.tok
    /\ tokenExpiry' = E.exp
    /\ urlHash' = E.hash
    /\ location' = E.loc
    /\ log' = E.log

\* Observer records: an adapter invocation (the unexpired value the cache
\* held under its key when it was called, or null; the answer of its own
\* checkRateLimit(); what it did at once), and a network request with the
\* rate-limit answers that preceded it in the same adapter invocation.
Invoked(adapter, cached, rate, outcome) ==
    [t |-> "call", adapter |-> adapter, cached |-> cached, rate |-> rate, outcome |-> outcome]
Requested(adapter, provider, checked, denied) ==
    [t |-> "request", adapter |-> adapter, provider |-> provider,
     checked |-> checked, denied |-> denied]
Logged(E, entries) == [E EXCEPT !.log = @ \cup entries]

-----------------------------------------------------------------------------
(* api.js: makeApiRequest *)

CooldownMs == 60000

\* A makeApiRequest that marks the key in the cache when it sends the request
makeApiRequestAllowedMarking(E1, key, t) ==
    IF getCache(E1.cache, key, t) # Null
    THEN [kind |-> "return", err |-> "", value |-> getCache(E1.cache, key, t),
          env |-> E1, rate |-> "allowed"]
    ELSE [kind |-> "await", err |-> "", value |-> Null,
          env |-> [E1 EXCEPT !.cache = setCache(@, key, Data("inflight", key, 0),
                                                CACHE_DURATION, t)],
          rate |-> "allowed"]

\* makeApiRequest once the rate-limit check allowed it (E1 holds the counted
\* request): the cooldown sentinel, then the cache, then the fetch.
makeApiRequestAllowed(E1, key, t) ==
    LET rateLimitKey == RateLimitKey(key)
        rateLimitTime == getCache(E1.cache, rateLimitKey, t)
        c2 == getCacheEvict(E1.cache, rateLimitKey, t)
    IN  IF rateLimitTime # Null /\ t - rateLimitTime.at < CooldownMs
        THEN [kind |-> "throw", err |-> "cooldown", value |-> Null,
              env |-> [E1 EXCEPT !.cache = c2], rate |-> "allowed"]
        ELSE
        LET c3 == IF rateLimitTime # Null THEN clearCache(c2, rateLimitKey) ELSE c2
            cachedData == getCache(c3, key, t)
        IN  [kind |-> IF cachedData # Null THEN "return" ELSE "await",
             err |-> "", value |-> cachedData,
             env |-> [E1 EXCEPT !.cache = getCacheEvict(c3, key, t)], rate |-> "allowed"]

\* makeApiRequest after checkRateLimit() answered r
makeApiRequestChecked(E, key, t, r) ==
    IF ~r.ok
    THEN [kind |-> "throw", err |-> "rate_limit", value |-> Null,
          env |-> [E EXCEPT !.rl = [count |-> r.count, last |-> r.last]], rate |-> "denied"]
    ELSE makeApiRequestAllowed([E EXCEPT !.rl = [count |-> r.count, last |-> r.last]], key, t)

\* makeApiRequest(url, {}, cacheKey) up to its fetch: it throws, returns the
\* cached value, or awaits the network.
makeApiRequestStart(E, key, t) ==
    IF mockMode /\ mockData
    THEN [kind |-> "throw", err |-> "mock_mode", value |-> Null, env |-> E, rate |-> "unchecked"]
    ELSE makeApiRequestChecked(E, key, t, checkRateLimit(E.rl, t))

\* makeApiRequest from the arrival of the response: it throws on a transport
\* failure or a non-2xx status, and otherwise caches a truthy body and
\* returns the body.
makeApiRequestFinish(E, key, resp, t) ==
    IF resp.kind # "json"
    THEN [kind |-> "throw", err |-> resp.kind, value |-> Null, env |-> E]
    ELSE [kind |-> "return", err |-> "", value |-> resp.body,
          env |-> IF resp.body # Null
                  THEN [E EXCEPT !.cache = setCache(@, key, resp.body, CACHE_DURATION, t)]
                  ELSE E]

-----------------------------------------------------------------------------
(* api.js: the Finnhub adapters (profile, quote, financials, earnings) *)

Unstarted == [st |-> "unstarted", value |-> Null, stage |-> "none"]
Pending(stage) == [st |-> "pending", value |-> Null, stage |-> stage]
Fulfilled(v) == [st |-> "fulfilled", value |-> v, stage |-> "none"]
Rejected(err) == [st |-> "rejected", value |-> [t |-> "thrown", err |-> err], stage |-> "none"]

\* The adapter after makeApiRequest settled with m: `if (data.error) throw`,
\* and in the catch the MockData fallback of the profile and quote adapters.
FinnhubSettle(of, sym, m) ==
    IF m.kind = "return" /\ m.value # Null /\ m.value.t # "error"
    THEN Fulfilled(m.value)
    ELSE IF of \in MockFallbackOps /\ mockData
    THEN Fulfilled(MockValue(of, sym))
    ELSE Rejected(IF m.kind = "throw" THEN m.err ELSE "api_error")

\* What the observer notes of an adapter that settled with s at once
SettledAs(m, s) ==
    IF s.st = "fulfilled" /\ s.value.t = "mock" THEN "mock"
    ELSE IF s.st = "fulfilled" THEN "cached"
    ELSE IF m.kind = "throw" THEN m.err
    ELSE "api_error"

\* The adapter once makeApiRequest reached its fetch or settled (m); held
\* is what the cache held under the key when the adapter was called.
FinnhubStarted(of, sym, held, m) ==
    IF m.kind = "await"
    THEN [sub |-> Pending("finnhub"),
          env |-> Logged(m.env, {Invoked(of, held, m.rate, "request"),
                                 Requested(of, "finnhub", TRUE, FALSE)})]
    ELSE [sub |-> FinnhubSettle(of, sym, m),
          env |-> Logged(m.env, {Invoked(of, held, m.rate,
                                         SettledAs(m, FinnhubSettle(of, sym, m)))})]

\* The adapter from its call to its first await
FinnhubStart(of, sym, E, t) ==
    IF of \in MockFallbackOps /\ mockMode /\ mockData
    THEN [sub |-> Fulfilled(MockValue(of, sym)),
          env |-> Logged(E, {Invoked(of, Null, "unchecked", "mock")})]
    ELSE FinnhubStarted(of, sym, getCache(E.cache, FinnhubKey(of, sym), t),
                        makeApiRequestStart(E, FinnhubKey(of, sym), t))

\* The adapter once makeApiRequest settled with m on the response
FinnhubFinished(of, sym, m) == [sub |-> FinnhubSettle(of, sym, m), env |-> m.env]

\* The adapter from the arrival of its response
FinnhubFinish(of, sym, E, resp, t) ==
    FinnhubFinished(of, sym, makeApiRequestFinish(E, FinnhubKey(of, sym), resp, t))

-----------------------------------------------------------------------------
(* api.js: the Reddit token store and makeRedditApiRequest *)

\* The expiry written for a token taken from the URL fragment is one year
\* ahead; the model keeps it beyond every time it reaches (and within the
\* 32-bit integers of the checker).
TokenLifetimeMs == 2000000000

\* A token store that still hands out the stored token at its expiry time
getRedditAccessTokenAtExpiry(E, t) ==
    IF E.tok # "" /\ E.exp # 0 /\ t <= E.exp
    THEN [kind |-> "token", token |-> E.tok, env |-> E]
    ELSE IF E.hash = "error"
    THEN [kind |-> "throw", token |-> "", env |-> E]
    ELSE IF E.hash = "token"
    THEN [kind |-> "token", token |-> "fragment",
          env |-> [E EXCEPT !.tok = "fragment", !.exp = t + TokenLifetimeMs, !.hash = "none"]]
    ELSE [kind |-> "no_token", token |-> "", env |-> E]

\* getRedditAccessToken(): the stored token while now < its expiry, else the
\* token found in the URL fragment (which is then stored), else an error.
getRedditAccessToken(E, t) ==
    IF E.tok # "" /\ E.exp # 0 /\ t < E.exp
    THEN [kind |-> "token", token |-> E.tok, env |-> E]
    ELSE IF E.hash = "error"
    THEN [kind |-> "throw", token |-> "", env |-> E]
    ELSE IF E.hash = "token"
    THEN [kind |-> "token", token |-> "fragment",
          env |-> [E EXCEPT !.tok = "fragment", !.exp = t + TokenLifetimeMs, !.hash = "none"]]
    ELSE [kind |-> "no_token", token |-> "", env |-> E]

\* makeRedditApiRequest once the token store answered a
makeRedditApiRequestWith(a) ==
    IF a.kind = "token" THEN [kind |-> "await", env |-> a.env]
    ELSE IF a.kind = "no_token"
    THEN [kind |-> "return_null", env |-> [a.env EXCEPT !.loc = "reddit_auth"]]
    ELSE [kind |-> "throw", env |-> a.env]

\* makeRedditApiRequest(endpoint) up to its fetch: with a token it awaits the
\* network; without one it sets window.location.href to the authorization
\* URL and returns null; an OAuth error in the fragment is rethrown.
makeRedditApiRequestStart(E, t) == makeRedditApiRequestWith(getRedditAccessToken(E, t))

-----------------------------------------------------------------------------
(* api.js: getRedditNews and getCompanyNews *)

\* getRedditNews once makeRedditApiRequest reached its fetch or settled (m).
\* auth tells that the token store was asked and had no valid token.  Null
\* data or a rethrown error: getRedditNews throws.
getRedditNewsRequested(m) ==
    [kind |-> IF m.kind = "await" THEN "await" ELSE "throw", value |-> Null,
     env |-> m.env, rate |-> "allowed", auth |-> m.kind # "await"]

\* getRedditNews after its cache lookup missed and checkRateLimit() answered r
getRedditNewsChecked(E0, t, r) ==
    IF ~r.ok
    THEN [kind |-> "throw", value |-> Null,
          env |-> [E0 EXCEPT !.rl = [count |-> r.count, last |-> r.last]],
          rate |-> "denied", auth |-> FALSE]
    ELSE getRedditNewsRequested(
             makeRedditApiRequestStart([E0 EXCEPT !.rl = [count |-> r.count, last |-> r.last]], t))

\* getRedditNews(symbol, pageSize) up to its fetch
getRedditNewsStart(sym, E, t) ==
    IF getCache(E.cache, RedditKey(sym, PageSize), t) # Null
    THEN [kind |-> "return", value |-> getCache(E.cache, RedditKey(sym, PageSize), t),
          env |-> E, rate |-> "unchecked", auth |-> FALSE]
    ELSE getRedditNewsChecked(
             [E EXCEPT !.cache = getCacheEvict(@, RedditKey(sym, PageSize), t)],
             t, checkRateLimit(E.rl, t))

\* transformRedditData(data): the posts of a listing
transformRedditData(body) == List("reddit", body.sym, body.v)

\* getRedditNews from the arrival of the Reddit response
getRedditNewsFinish(sym, E, resp, t) ==
    IF resp.kind # "json" \/ resp.body = Null
    THEN [kind |-> "throw", value |-> Null, env |-> E]
    ELSE [kind |-> "return", value |-> transformRedditData(resp.body),
          env |-> [E EXCEPT !.cache = setCache(@, RedditKey(sym, PageSize),
                                               transformRedditData(resp.body),
                                               CACHE_DURATION, t)]]

\* A getCompanyNews that answers a Reddit failure with the empty list
NewsWithoutFallback(sym, r, t) ==
    IF r.kind = "return"
    THEN [sub |-> Fulfilled(r.value),
          env |-> [r.env EXCEPT !.cache = setCache(@, NewsKey(sym, PageSize), r.value,
                                                   CACHE_DURATION, t)]]
    ELSE [sub |-> Fulfilled(EmptyList), env |-> r.env]

\* getCompanyNews after getRedditNews settled with r: the posts are cached
\* and returned, and a failure of any kind turns to the News API.
NewsAfterReddit(sym, r, t) ==
    IF r.kind = "return"
    THEN [sub |-> Fulfilled(r.value),
          env |-> [r.env EXCEPT !.cache = setCache(@, NewsKey(sym, PageSize), r.value,
                                                   CACHE_DURATION, t)]]
    ELSE [sub |-> Pending("newsapi"), env |-> r.env]

\* getCompanyNews once getRedditNews reached its fetch or settled (r), n
\* being what follows a settled r
getCompanyNewsTried(r, n) ==
    [sub |-> IF r.kind = "await" THEN Pending("reddit") ELSE n.sub,
     auth |-> r.auth,
     env |-> IF r.kind = "await"
             THEN Logged(r.env, {Invoked("news", Null, "allowed", "request"),
                                 Requested("news", "reddit", TRUE, FALSE)})
             ELSE IF n.sub.st = "pending"
             THEN Logged(n.env, {Invoked("news", Null, "allowed", "request"),
                                 Requested("news", "newsapi", TRUE, r.rate = "denied")})
             ELSE Logged(n.env, {Invoked("news", Null, "allowed", "cached")})]

getCompanyNewsTry(sym, t, r) == getCompanyNewsTried(r, NewsAfterReddit(sym, r, t))

\* getCompanyNews after its cache lookup missed and checkRateLimit() answered
\* c: a denial is thrown and caught, and the empty list returned.
getCompanyNewsChecked(sym, E0, t, c) ==
    IF ~c.ok
    THEN [sub |-> Fulfilled(EmptyList), auth |-> FALSE,
          env |-> Logged([E0 EXCEPT !.rl = [count |-> c.count, last |-> c.last]],
                         {Invoked("news", Null, "denied", "empty")})]
    ELSE getCompanyNewsTry(sym, t,
             getRedditNewsStart(sym, [E0 EXCEPT !.rl = [count |-> c.count, last |-> c.last]], t))

\* getCompanyNews(symbol, 5, companyName) from its call to its first await.
\* Every error inside it is caught and answered with the empty list.
getCompanyNewsStart(sym, E, t) ==
    IF getCache(E.cache, NewsKey(sym, PageSize), t) # Null
    THEN [sub |-> Fulfilled(getCache(E.cache, NewsKey(sym, PageSize), t)), auth |-> FALSE,
          env |-> Logged(E, {Invoked("news", getCache(E.cache, NewsKey(sym, PageSize), t),
                                     "unchecked", "cached")})]
    ELSE getCompanyNewsChecked(sym,
             [E EXCEPT !.cache = getCacheEvict(@, NewsKey(sym, PageSize), t)],
             t, checkRateLimit(E.rl, t))

\* getCompanyNews once getRedditNews settled on the response: n is what
\* follows
getCompanyNewsOnward(n) ==
    [sub |-> n.sub,
     env |-> IF n.sub.st = "pending"
             THEN Logged(n.env, {Requested("news", "newsapi", TRUE, FALSE)})
             ELSE n.env]

\* getCompanyNews from the arrival of the Reddit response
getCompanyNewsReddit(sym, E, resp, t) ==
    getCompanyNewsOnward(NewsAfterReddit(sym, getRedditNewsFinish(sym, E, resp, t), t))

\* A getCompanyNews that drops the articles of the News API
getCompanyNewsApiDropped(sym, E, resp, t) == [sub |-> Fulfilled(EmptyList), env |-> E]

\* getCompanyNews from the arrival of the News API response
getCompanyNewsApi(sym, E, resp, t) ==
    IF resp.kind # "json" \/ resp.body = Null \/ resp.body.t = "error"
    THEN [sub |-> Fulfilled(EmptyList), env |-> E]
    ELSE [sub |-> Fulfilled(IF resp.body.articles # Null THEN resp.body.articles
                            ELSE EmptyList),
          env |-> [E EXCEPT !.cache =
                      setCache(@, NewsKey(sym, PageSize),
                               IF resp.body.articles # Null THEN resp.body.articles
                               ELSE EmptyList,
                               CACHE_DURATION, t)]]

-----------------------------------------------------------------------------
(* api.js: getComprehensiveStockData *)

SubOps == {"quote", "financials", "earnings", "news"}
Providers == {"profile", "quote", "financials", "earnings", "reddit", "newsapi"}

\* One call: where it stands (pc), the function called (fn), its argument and
\* formattedSymbol, the
\* profile, the four sub-fetch promises and the record it resolved with.
\* net and got are the observer's: what became of each provider request of
\* the call and the payload it delivered; auth tells that the token store had
\* no valid token when the call asked.
IdleCall ==
    [pc |-> "idle", fn |-> "none", arg |-> Null, symbol |-> <<>>, profile |-> Null,
     sub |-> [o \in SubOps |-> Unstarted], result |-> Null,
     net |-> [p \in Providers |-> "none"], got |-> [p \in Providers |-> Null],
     auth |-> FALSE]

Settled(s) == s.st \in {"fulfilled", "rejected"}

\* The record built from the settled promises (lines 445-453)
Result(rec) ==
    [symbol |-> rec.symbol,
     overview |-> rec.profile,
     quote |-> IF rec.sub["quote"].st = "fulfilled" THEN rec.sub["quote"].value ELSE Null,
     basicFinancials |-> IF rec.sub["financials"].st = "fulfilled"
                         THEN rec.sub["financials"].value ELSE Null,
     earnings |-> IF rec.sub["earnings"].st = "fulfilled"
                  THEN rec.sub["earnings"].value ELSE Null,
     news |-> IF rec.sub["news"].st = "fulfilled" THEN rec.sub["news"].value ELSE EmptyList]

\* A join that goes on as soon as one of the four is rejected
JoinUntilRejection(rec) ==
    IF (\A o \in SubOps : Settled(rec.sub[o])) \/ (\E o \in SubOps : rec.sub[o].st = "rejected")
    THEN [rec EXCEPT !.pc = "resolved", !.result = Result(rec)]
    ELSE [rec EXCEPT !.pc = "join"]

\* A join that waits for four fulfilled promises
JoinWhenAllFulfilled(rec) ==
    IF \A o \in SubOps : rec.sub[o].st = "fulfilled"
    THEN [rec EXCEPT !.pc = "resolved", !.result = Result(rec)]
    ELSE [rec EXCEPT !.pc = "join"]

\* await Promise.allSettled([...]): the call goes on once all four settled
Join(rec) ==
    IF \A o \in SubOps : Settled(rec.sub[o])
    THEN [rec EXCEPT !.pc = "resolved", !.result = Result(rec)]
    ELSE [rec EXCEPT !.pc = "join"]

\* companyName = profile?.name || formattedSymbol
CompanyName(rec) ==
    IF rec.profile.t = "data" /\ rec.profile.name # <<>>
    THEN rec.profile.name ELSE rec.symbol

NetOf(s) == IF s.st = "pending" THEN "pending" ELSE "none"

\* The call once the four sub-fetches were started (q, f, e, n)
SubFetches(rec, p, q, f, e, n) ==
    [rec |-> Join([rec EXCEPT
                !.profile = p.value,
                !.sub = [o \in SubOps |->
                            CASE o = "quote" -> q.sub
                              [] o = "financials" -> f.sub
                              [] o = "earnings" -> e.sub
                              [] o = "news" -> n.sub],
                !.net = [pr \in Providers |->
                            CASE pr = "profile" -> rec.net["profile"]
                              [] pr = "quote" -> NetOf(q.sub)
                              [] pr = "financials" -> NetOf(f.sub)
                              [] pr = "earnings" -> NetOf(e.sub)
                              [] pr = "reddit" ->
                                   IF n.sub.stage = "reddit" THEN "pending" ELSE "none"
                              [] pr = "newsapi" ->
                                   IF n.sub.stage = "newsapi" THEN "pending" ELSE "none"],
                !.auth = n.auth]),
     env |-> n.env]

\* The four calls inside Promise.allSettled([...]), made in order in one
\* synchronous section, each in the environment the one before left
WithEarnings(rec, p, t, q, f, e) ==
    SubFetches(rec, p, q, f, e, getCompanyNewsStart(rec.symbol, e.env, t))
WithFinancials(rec, p, t, q, f) ==
    WithEarnings(rec, p, t, q, f, FinnhubStart("earnings", rec.symbol, f.env, t))
WithQuote(rec, p, t, q) ==
    WithFinancials(rec, p, t, q, FinnhubStart("financials", rec.symbol, q.env, t))

\* A call that starts the four sub-fetches however the profile settled
AfterProfileRegardless(rec, p, E, t) ==
    WithQuote(rec, p, t, FinnhubStart("quote", rec.symbol, E, t))

\* The call once the profile promise settled with p: a rejection is rethrown;
\* otherwise the four sub-fetches are started.
AfterProfile(rec, p, E, t) ==
    IF p.st = "rejected"
    THEN [rec |-> [rec EXCEPT !.pc = "rejected", !.result = p.value], env |-> E]
    ELSE WithQuote(rec, p, t, FinnhubStart("quote", rec.symbol, E, t))

\* Longest run of calls in one behaviour.
MaxCalls == 2
\* The ticker in the page's URL (TickerPage passes it on as it is): one to
\* normalize and an invalid one.
AggregateArguments == {Str(<<"a", "B">>), Str(<<"A", "1">>)}

\* getComprehensiveStockData(symbol), from the call to its first await
StartCallOf(c, symbol) ==
    /\ c \in slots
    /\ calls[c].pc = "idle"
    /\ started < MaxCalls
    /\ \E rec \in {[IdleCall EXCEPT !.fn = "getComprehensiveStockData", !.arg = symbol,
                              !.symbol = formatTicker(symbol)]} :
       \E p \in {FinnhubStart("profile", rec.symbol, Env, now)} :
        IF p.sub.st = "pending"
        THEN /\ calls' = [calls EXCEPT ![c] =
                    [rec EXCEPT !.pc = "profile", !.net["profile"] = "pending"]]
             /\ SetEnv(p.env)
        ELSE \E a \in {AfterProfile(rec, p.sub, p.env, now)} :
             /\ calls' = [calls EXCEPT ![c] = a.rec]
             /\ SetEnv(a.env)
    /\ started' = started + 1
    /\ UNCHANGED <<clockVars, mockMode, mockData, slots, obsVars>>

\* The page calls getComprehensiveStockData with the ticker of its URL
StartCall(c) == StartCallOf(c, input)

Delivered(resp, good) == IF good THEN "ok" ELSE "failed"

\* The profile response arrives
ProfileResponse(c) ==
    /\ calls[c].pc = "profile"
    /\ \E resp \in ProfileResponses(calls[c].symbol) :
       \E rec \in {[calls[c] EXCEPT
                       !.net["profile"] =
                           Delivered(resp, resp.kind = "json" /\ resp.body.t = "data"),
                       !.got["profile"] = resp.body]} :
       \E p \in {FinnhubFinish("profile", rec.symbol, Env, resp, now)} :
       \E a \in {AfterProfile(rec, p.sub, p.env, now)} :
            /\ calls' = [calls EXCEPT ![c] = a.rec]
            /\ SetEnv(a.env)
    /\ UNCHANGED <<clockVars, mockMode, mockData, slots, started, obsVars>>

\* The response to the quote, financials or earnings request arrives
FinnhubResponse(c) ==
    /\ calls[c].pc = "join"
    /\ \E of \in SubOps \ {"news"} :
        /\ calls[c].sub[of].st = "pending"
        /\ \E resp \in FinnhubResponses(of, calls[c].symbol) :
           \E f \in {FinnhubFinish(of, calls[c].symbol, Env, resp, now)} :
                /\ calls' = [calls EXCEPT ![c] = Join([@ EXCEPT
                        !.sub[of] = f.sub,
                        !.net[of] = Delivered(resp, resp.kind = "json" /\ resp.body.t = "data"),
                        !.got[of] = resp.body])]
                /\ SetEnv(f.env)
    /\ UNCHANGED <<clockVars, mockMode, mockData, slots, started, obsVars>>

\* The Reddit response arrives
RedditResponse(c) ==
    /\ calls[c].pc = "join"
    /\ calls[c].sub["news"].st = "pending"
    /\ calls[c].sub["news"].stage = "reddit"
    /\ \E resp \in RedditResponses(calls[c].symbol) :
       \E n \in {getCompanyNewsReddit(calls[c].symbol, Env, resp, now)} :
            /\ calls' = [calls EXCEPT ![c] = Join([@ EXCEPT
                    !.sub["news"] = n.sub,
                    !.net["reddit"] = Delivered(resp, resp.kind = "json" /\ resp.body # Null),
                    !.got["reddit"] = resp.body,
                    !.net["newsapi"] = IF n.sub.st = "pending" THEN "pending" ELSE "none"])]
            /\ SetEnv(n.env)
    /\ UNCHANGED <<clockVars, mockMode, mockData, slots, started, obsVars>>

\* The News API response arrives
NewsApiResponse(c) ==
    /\ calls[c].pc = "join"
    /\ calls[c].sub["news"].st = "pending"
    /\ calls[c].sub["news"].stage = "newsapi"
    /\ \E resp \in NewsApiResponses(CompanyName(calls[c])) :
       \E n \in {getCompanyNewsApi(calls[c].symbol, Env, resp, now)} :
            /\ calls' = [calls EXCEPT ![c] = Join([@ EXCEPT
                    !.sub["news"] = n.sub,
                    !.net["newsapi"] = Delivered(resp, resp.kind = "json" /\ resp.body.t = "data"),
                    !.got["newsapi"] = resp.body])]
            /\ SetEnv(n.env)
    /\ UNCHANGED <<clockVars, mockMode, mockData, slots, started, obsVars>>

\* The caller has taken the outcome; the slot is free for the next call
Return(c) ==
    /\ calls[c].pc \in {"resolved", "rejected"}
    /\ started < MaxCalls
    /\ calls' = [calls EXCEPT ![c] = IdleCall]
    /\ log' = {}
    /\ UNCHANGED <<clockVars, utilVars, pageVars, slots, started, obsVars>>

-----------------------------------------------------------------------------
(* js/api.js: getEarningsCalendar (the Alpha Vantage calendar) *)

\* getEarningsCalendar(symbol) up to its fetch: the URL is built and fetched
EarningsCalendarCall(c) ==
    /\ c \in slots
    /\ calls[c].pc = "idle"
    /\ started < MaxCalls
    /\ LET sym == formatTicker(input) IN
        /\ calls' = [calls EXCEPT ![c] =
                [IdleCall EXCEPT !.pc = "calendar", !.fn = "getEarningsCalendar",
                                 !.arg = input, !.symbol = sym]]
        /\ log' = {Invoked("earningsCalendar",
                           getCache(cache, EarningsCalendarKey(sym), now),
                           "unchecked", "request"),
                   Requested("earningsCalendar", "alphavantage", FALSE, FALSE)}
    /\ started' = started + 1
    /\ UNCHANGED <<clockVars, utilVars, pageVars, slots, obsVars>>

\* The CSV arrives and the parsed rows are cached and returned; a failed
\* request is rethrown
EarningsCalendarResponse(c) ==
    /\ calls[c].pc = "calendar"
    /\ \E ok \in BOOLEAN :
        LET rows == List("alphavantage", calls[c].symbol, 1) IN
            /\ cache' = IF ok
                        THEN setCache(cache, EarningsCalendarKey(calls[c].symbol), rows,
                                      CACHE_DURATION, now)
                        ELSE cache
            /\ calls' = [calls EXCEPT ![c] =
                    IF ok THEN [@ EXCEPT !.pc = "resolved", !.result = rows]
                    ELSE [@ EXCEPT !.pc = "rejected", !.result = Rejected("httperr").value]]
    /\ log' = {}
    /\ UNCHANGED <<clockVars, requestCount, lastRequestTime, pageVars, slots, started, obsVars>>

-----------------------------------------------------------------------------
(* The clock *)

Pass(steps, limit) ==
    /\ advances < limit
    /\ \E d \in steps : now' = now + d
    /\ advances' = advances + 1
    /\ UNCHANGED <<utilVars, pageVars, callVars, obsVars>>

\* Time passes between two operations of the utilities
Advance == Pass(TimeSteps, MaxAdvances)

\* Time passes while the page is open and no request is in flight: half a
\* minute, or just over the cache duration.  (Responses arrive within the
\* same millisecond as their requests.)
MaxWaits == 1
WaitSteps == {30000, CACHE_DURATION + 1}
Wait ==
    /\ \A c \in slots : calls[c].pc \in {"idle", "resolved", "rejected"}
    /\ Pass(WaitSteps, MaxWaits)

-----------------------------------------------------------------------------
(* The page and the aggregator *)

CallSlots == {1, 2}

\* Requests already counted in the current rate window when the behaviour
\* starts (the window having been opened at StartTime by earlier traffic).
PriorRequests == (MAX_REQUESTS_PER_MINUTE - 5)..MAX_REQUESTS_PER_MINUTE

\* The token store when the behaviour starts: no token, a token arriving in
\* the URL fragment, an OAuth error in the fragment, or a stored token that
\* expires half a minute from now.
TokenStates ==
    {[tok |-> "", exp |-> 0, hash |-> "none"],
     [tok |-> "", exp |-> 0, hash |-> "token"],
     [tok |-> "", exp |-> 0, hash |-> "error"],
     [tok |-> "stored", exp |-> StartTime + 30000, hash |-> "none"]}

NoWindow == [start |-> 0, calls |-> 0]
CacheKeys == {<<"k", "1">>, <<"k", "2">>}
NothingWritten == [k \in CacheKeys |-> Null]

InitClock == now = StartTime /\ advances = 0
InitUtils == cache = EmptyMap /\ requestCount = 0 /\ lastRequestTime = 0
InitPage ==
    /\ mockMode = FALSE /\ mockData = FALSE
    /\ storedToken = "" /\ tokenExpiry = 0 /\ urlHash = "none" /\ location = "app"
InitCalls ==
    /\ calls = [c \in CallSlots |-> IdleCall] /\ slots = {1} /\ started = 0
    /\ log = {}
InitObs == op = NoOp /\ written = NothingWritten /\ win = NoWindow

\* The ticker page just loaded: the cache is empty, MOCK_MODE is off and the
\* mock-data script is loaded or not; either the limiter is fresh and the
\* token store in any of its states, or the window is nearly used up.
Init ==
    /\ InitClock
    /\ cache = EmptyMap
    /\ mockMode = FALSE
    /\ mockData \in BOOLEAN
    /\ \E ts \in TokenStates :
        storedToken = ts.tok /\ tokenExpiry = ts.exp /\ urlHash = ts.hash
    /\ requestCount \in {0} \cup PriorRequests
    /\ requestCount # 0 => storedToken = "" /\ urlHash = "none"
    /\ lastRequestTime = IF requestCount = 0 THEN 0 ELSE StartTime
    /\ location = "app"
    /\ InitCalls
    /\ InitObs
    /\ input \in AggregateArguments

Next ==
    \/ Wait
    \/ \E c \in CallSlots : StartCall(c)
    \/ \E c \in CallSlots : ProfileResponse(c)
    \/ \E c \in CallSlots : FinnhubResponse(c)
    \/ \E c \in CallSlots : RedditResponse(c)
    \/ \E c \in CallSlots : NewsApiResponse(c)
    \/ \E c \in CallSlots : Return(c)
    \/ \E c \in CallSlots : EarningsCalendarCall(c)
    \/ \E c \in CallSlots : EarningsCalendarResponse(c)

Spec == Init /\ [][Next]_vars

-----------------------------------------------------------------------------
(* The cache on its own *)

CacheValues == {[t |-> "data", v |-> 1], [t |-> "data", v |-> 2]}
CacheTtls == {0, 30000, 60000, CACHE_DURATION}

InitUtilities ==
    /\ InitClock /\ InitUtils /\ InitPage /\ InitCalls /\ InitObs
    /\ input = Null

\* setCache(key, data, ttl)
CacheSet ==
    /\ \E k \in CacheKeys, v \in CacheValues, ttl \in CacheTtls :
        /\ cache' = setCache(cache, k, v, ttl, now)
        /\ op' = [name |-> "setCache", key |-> k]
        /\ written' = [written EXCEPT ![k] = [t |-> "set", value |-> v, ttl |-> ttl, at |-> now]]
    /\ UNCHANGED <<clockVars, requestCount, lastRequestTime, pageVars, callVars, win, input>>

\* getCache(key)
CacheGet ==
    /\ \E k \in CacheKeys :
        /\ cache' = getCacheEvict(cache, k, now)
        /\ op' = [name |-> "getCache", key |-> k, result |-> getCache(cache, k, now),
                  at |-> now, size |-> getCacheSize(getCacheEvict(cache, k, now))]
    /\ UNCHANGED <<clockVars, requestCount, lastRequestTime, pageVars, callVars,
                   written, win, input>>

\* clearCache(key)
CacheClear ==
    /\ \E k \in CacheKeys :
        /\ k \in DOMAIN cache
        /\ cache' = clearCache(cache, k)
        /\ op' = [name |-> "clearCache", key |-> k]
        /\ written' = [written EXCEPT ![k] = Null]
    /\ UNCHANGED <<clockVars, requestCount, lastRequestTime, pageVars, callVars, win, input>>

\* API.getCacheStats(): the size Utils.getCacheSize() reports, beside the
\* number of entries that have not expired at the time of the call
Unexpired(c, t) == {k \in DOMAIN c : ~Expired(c, k, t)}
getCacheStats(c) == [cacheSize |-> getCacheSize(c), cacheDuration |-> CACHE_DURATION]
CacheStats ==
    /\ op' = [name |-> "getCacheStats", result |-> getCacheStats(cache), at |-> now,
              live |-> Cardinality(Unexpired(cache, now))]
    /\ UNCHANGED <<clockVars, utilVars, pageVars, callVars, written, win, input>>

NextCache == Advance \/ CacheSet \/ CacheGet \/ CacheClear \/ CacheStats

SpecCache == InitUtilities /\ [][NextCache]_vars

\* C1: a getCache(k) that follows a setCache(k, v, ttl) returns v while the
\* time elapsed since the set does not exceed ttl, and null once it does.
C1_CacheRoundTrip ==
    (op.name = "getCache" /\ written[op.key] # Null) =>
        LET w == written[op.key] IN
            op.result = IF op.at - w.at <= w.ttl THEN w.value ELSE Null

\* A read exactly ttl after the write, answered with the value written
C1_Witness ==
    /\ op.name = "getCache"
    /\ written[op.key] # Null
    /\ written[op.key].ttl = 60000
    /\ op.at - written[op.key].at = 60000
    /\ op.result = written[op.key].value

-----------------------------------------------------------------------------
(* The rate limiter on its own *)

\* The observer's window: opened by the first call, and again by the first
\* call made more than 60 s after it was opened.
Observe(w, t) ==
    IF t - w.start > RateWindowMs
    THEN [start |-> t, calls |-> 1]
    ELSE [start |-> w.start, calls |-> w.calls + 1]

\* The observer's tally: how many calls returned true at each time so far
NoneGranted == [t \in {} |-> 0]
Granted(before, ok, t) ==
    IF ~ok THEN before
    ELSE [u \in (DOMAIN before) \cup {t} |->
            IF u = t
            THEN (IF t \in DOMAIN before THEN before[t] + 1 ELSE 1)
            ELSE before[u]]
GrantedSoFar == IF op.name = "checkRateLimit" THEN op.granted ELSE NoneGranted

\* checkRateLimit()
RateCheck ==
    /\ win.calls < MAX_REQUESTS_PER_MINUTE + MaxDenied
    /\ \E r \in {checkRateLimit(Limiter, now)} :
        /\ requestCount' = r.count
        /\ lastRequestTime' = r.last
        /\ op' = [name |-> "checkRateLimit", result |-> r.ok, at |-> now,
                  countBefore |-> requestCount, lastBefore |-> lastRequestTime,
                  granted |-> Granted(GrantedSoFar, r.ok, now)]
    /\ win' = Observe(win, now)
    /\ UNCHANGED <<clockVars, cache, pageVars, callVars, written, input>>

NextRate == Advance \/ RateCheck

SpecRate == InitUtilities /\ [][NextRate]_vars

\* C2: counted from a window reset, the first MAX_REQUESTS_PER_MINUTE calls
\* of checkRateLimit() within the 60 s window return true and every further
\* call in the window returns false; the first call made more than 60 s
\* after the window start returns true and restarts the count.
C2_RateLimiterCap ==
    op.name = "checkRateLimit" =>
        /\ op.result = (win.calls <= MAX_REQUESTS_PER_MINUTE)
        /\ win.calls = 1 => (op.result /\ requestCount = 1 /\ lastRequestTime = op.at)

\* A used-up window rolls over: the call is allowed and counted as the first
C2_Witness ==
    /\ op.name = "checkRateLimit"
    /\ op.countBefore = MAX_REQUESTS_PER_MINUTE
    /\ op.at - op.lastBefore > RateWindowMs
    /\ op.result
    /\ requestCount = 1

-----------------------------------------------------------------------------
(* The ticker grammar *)

Strings(n) == UNION {[1..k -> Chars] : k \in 0..n}
TickerArguments == {Str(s) : s \in Strings(MaxInputLen)} \cup {Null, Num(0), Num(5)}

InitTicker ==
    /\ InitClock /\ InitUtils /\ InitPage /\ InitCalls /\ InitObs
    /\ input \in TickerArguments

\* isValidTicker, formatTicker and validateUserInput applied to the input
\* (formatTicker throws on a truthy value that is no string)
ValidateTicker ==
    /\ op = NoOp
    /\ op' = [name |-> "validate",
              valid |-> isValidTicker(input),
              formatted |-> IF input.t = "string" \/ Falsy(input)
                            THEN formatTicker(input) ELSE <<>>,
              cleaned |-> validateUserInput(input)]
    /\ UNCHANGED <<clockVars, utilVars, pageVars, callVars, written, win, input>>

NextTicker == ValidateTicker

SpecTicker == InitTicker /\ [][NextTicker]_vars

\* ^[A-Z]{1,5}$
TickerGrammar == UNION {[1..k -> UpperLetters] : k \in 1..5}

\* C8: isValidTicker(s) is true exactly when s is a string that, trimmed and
\* uppercased, matches ^[A-Z]{1,5}$; validateUserInput accepts exactly the
\* same inputs and returns what formatTicker makes of them.
C8_TickerGrammar ==
    op.name = "validate" =>
        LET accepted == input.t = "string" /\ toUpperCase(trim(input.s)) \in TickerGrammar IN
            /\ op.valid = accepted
            /\ (op.cleaned # Null) = accepted
            /\ accepted => (op.cleaned = Str(op.formatted) /\ op.formatted \in TickerGrammar)

\* " aBa " is accepted and normalized to "ABA"
C8_Witness ==
    /\ op.name = "validate"
    /\ input = Str(<<" ", "a", "B", "a", " ">>)
    /\ op.valid
    /\ op.cleaned = Str(<<"A", "B", "A">>)

-----------------------------------------------------------------------------
(* The adapters and the aggregator *)

\* C3: every provider request an adapter issues is preceded, in the same
\* adapter call, by a checkRateLimit() that returned true, and no
\* checkRateLimit() of that call returned false; an adapter whose
\* checkRateLimit() returned false fails with the rate-limit error.
C3_RateLimiterGate ==
    \A e \in log :
        /\ e.t = "request" => (e.checked /\ ~e.denied)
        /\ (e.t = "call" /\ e.rate = "denied") => e.outcome = "rate_limit"

\* The adapters that look their key up in the cache (those of the api
\* module with Reddit; the Alpha Vantage calendar only writes the cache)
CachingAdapters == SubOps \cup {"profile"}

\* C4: a caching adapter called while the cache holds an unexpired value
\* under its key (here: a value other than a provider's error body) returns
\* that value and issues no request.
C4_CacheHit ==
    \A e \in log :
        (e.t = "call" /\ e.adapter \in CachingAdapters
            /\ e.cached # Null /\ e.cached.t # "error") => e.outcome = "cached"

\* The field of the record that a Finnhub sub-fetch fills
Field(result, of) ==
    CASE of = "quote" -> result.quote
      [] of = "financials" -> result.basicFinancials
      [] of = "earnings" -> result.earnings

Aggregating(rec) == rec.fn = "getComprehensiveStockData"

\* C5: when the profile request succeeded the call does not reject, and the
\* record it resolves with has the profile as overview, null for each of
\* quote, basicFinancials and earnings whose request failed, the fetched
\* value for each whose request succeeded, and [] for news when both news
\* requests failed.
C5_PartialFailure ==
    \A c \in CallSlots :
        LET rec == calls[c] IN
            (Aggregating(rec) /\ rec.net["profile"] = "ok") =>
                /\ rec.pc # "rejected"
                /\ rec.pc = "resolved" =>
                    /\ rec.result.overview = rec.got["profile"]
                    /\ \A of \in SubOps \ {"news"} :
                        /\ rec.net[of] = "failed" => Field(rec.result, of) = Null
                        /\ rec.net[of] = "ok" => Field(rec.result, of) = rec.got[of]
                    /\ (rec.net["reddit"] = "failed" /\ rec.net["newsapi"] = "failed")
                           => rec.result.news = EmptyList

\* C6: when the profile request failed the call rejects and none of the four
\* sub-fetches is started; and a call rejects only before its sub-fetches
\* are started.
C6_FatalProfileFailure ==
    \A c \in CallSlots :
        LET rec == calls[c] IN
            Aggregating(rec) =>
                /\ rec.net["profile"] = "failed" =>
                    /\ rec.pc = "rejected"
                    /\ \A o \in SubOps : rec.sub[o] = Unstarted
                /\ rec.pc = "rejected" => \A o \in SubOps : rec.sub[o] = Unstarted

\* C7: a call whose ticker is not valid is rejected with the invalid-ticker
\* error, with the limiter and the cache untouched and no request issued.
C7_InvalidTickerFailsFast ==
    \A c \in CallSlots :
        LET rec == calls[c] IN
            (Aggregating(rec) /\ ~isValidTicker(rec.arg)) =>
                /\ rec.pc = "rejected"
                /\ rec.result = Rejected("invalid_ticker").value
                /\ \A p \in Providers : rec.net[p] = "none"
                /\ log = {}

\* The primary news source failed: the Reddit request failed, or none could
\* be made for want of a token.
RedditFailed(rec) == rec.net["reddit"] = "failed" \/ rec.auth

\* C9: when Reddit failed and the News API request succeeded, the news of the
\* call is the article list the News API delivered ([] if the body had
\* none); when the News API request failed too, the news is []; in neither
\* case is the news promise rejected, and the record carries that list.
C9_NewsFallback ==
    \A c \in CallSlots :
        LET rec == calls[c] IN
            (Aggregating(rec) /\ RedditFailed(rec)) =>
                /\ rec.net["newsapi"] = "ok" =>
                    rec.sub["news"] =
                        Fulfilled(IF rec.got["newsapi"].articles # Null
                                  THEN rec.got["newsapi"].articles ELSE EmptyList)
                /\ rec.net["newsapi"] = "failed" => rec.sub["news"] = Fulfilled(EmptyList)
                /\ rec.sub["news"].st # "rejected"
                /\ rec.pc = "resolved" => rec.result.news = rec.sub["news"].value

\* The Reddit request failed and the record carries the News API's articles
C9_Witness ==
    \E c \in CallSlots :
        /\ calls[c].pc = "resolved"
        /\ calls[c].net["reddit"] = "failed"
        /\ calls[c].net["newsapi"] = "ok"
        /\ calls[c].result.news.from = "newsapi"
        /\ calls[c].result.news = calls[c].got["newsapi"].articles

\* C10: when the token store has no valid Reddit token, no Reddit request is
\* made, the News API is asked, the news promise is not rejected, the call
\* does not reject for it, and once the four sub-fetches have settled the
\* call is resolved with a record.  (With no token at all the adapter has
\* also set window.location.href to the authorization URL: see location.)
C10_AuthRequiredNotFatal ==
    \A c \in CallSlots :
        LET rec == calls[c] IN
            (Aggregating(rec) /\ rec.auth) =>
                /\ rec.net["reddit"] = "none"
                /\ rec.net["newsapi"] # "none"
                /\ rec.sub["news"].st # "rejected"
                /\ rec.pc # "rejected"
                /\ (\A o \in SubOps : Settled(rec.sub[o])) =>
                       (rec.pc = "resolved" /\ rec.result.overview = rec.profile)

\* The stored token has expired, and the call resolved with News API articles
C10_Witness ==
    \E c \in CallSlots :
        /\ calls[c].auth
        /\ storedToken = "stored"
        /\ now >= tokenExpiry
        /\ calls[c].pc = "resolved"
        /\ calls[c].result.news.from = "newsapi"

\* C11: the data-fetching path never changes window.location, whatever the
\* state of the token store.
C11_NoRedirect == location = "app"

\* C12: while the profile fetch of a call is outstanding, only the profile
\* adapter has run for it (no cache lookup, rate-limit check or request of
\* another adapter); a sub-fetch is started only once the profile promise
\* is fulfilled, and a call that rejected never started one.
C12_ProfileFirst ==
    \A c \in CallSlots :
        LET rec == calls[c] IN
            Aggregating(rec) =>
                /\ rec.pc \in {"profile", "rejected"} =>
                    /\ \A o \in SubOps : rec.sub[o] = Unstarted
                    /\ \A p \in Providers \ {"profile"} : rec.net[p] = "none"
                /\ rec.pc = "profile" => \A e \in log : e.adapter = "profile"
                /\ (\E o \in SubOps : rec.sub[o] # Unstarted) =>
                    /\ rec.net["profile"] # "pending"
                    /\ rec.profile # Null
                    /\ rec.profile.t # "thrown"

\* The profile arrived and the sub-fetches are under way
C12_Witness ==
    \E c \in CallSlots :
        /\ calls[c].pc = "join"
        /\ calls[c].net["profile"] = "ok"
        /\ calls[c].profile = calls[c].got["profile"]
        /\ \A o \in SubOps : calls[c].sub[o].st = "pending"

\* C13: a call has produced its record only when each of the four
\* sub-fetches has settled, and while one of them is outstanding the call
\* waits without a record, whether or not another one was rejected.
C13_WaitForAll ==
    \A c \in CallSlots :
        LET rec == calls[c] IN
            Aggregating(rec) =>
                /\ rec.pc = "resolved" =>
                    /\ \A o \in SubOps : Settled(rec.sub[o])
                    /\ rec.result = Result(rec)
                /\ (\E o \in SubOps : rec.sub[o].st = "pending") =>
                    (rec.pc = "join" /\ rec.result = Null)

\* A call waiting for the news although its quote promise is rejected
C13_Witness ==
    \E c \in CallSlots :
        /\ calls[c].pc = "join"
        /\ calls[c].sub["quote"].st = "rejected"
        /\ calls[c].sub["financials"].st = "fulfilled"
        /\ calls[c].sub["news"].st = "pending"

------------------------------------------------------------------------

-----------------------------------------------------------------------------
(* data.js: createTimeline *)

\* Longest news list and longest earnings list handed to createTimeline.
MaxNews == 3
MaxEarnings == 2

\* publishedAt and reportDate strings: three days of January 2024, and the
\* empty string processNewsArticles and processEarnings put for a missing date
DateStrings == {"2024-01-10", "2024-01-12", "2024-01-15", ""}

\* Everything but the input is as the page loaded it
InitIdle == InitClock /\ InitUtils /\ InitPage /\ InitCalls /\ InitObs

\* The i-th article and the i-th earnings report of a list
Article(i, d) == [publishedAt |-> d, title |-> <<"news", i>>]
Earning(i, d) == [reportDate |-> d, period |-> <<"earnings", i>>]
DateLists(n) == UNION {[1..k -> DateStrings] : k \in 0..n}
TimelineArguments ==
    {[t |-> "timeline",
      news |-> [i \in 1..Len(ns) |-> Article(i, ns[i])],
      earnings |-> [i \in 1..Len(es) |-> Earning(i, es[i])]]
        : ns \in DateLists(MaxNews), es \in DateLists(MaxEarnings)}

\* new Date(string): a time value (in days), or an invalid date
InvalidDate == [valid |-> FALSE, day |-> 0]
ValidDate(d) == [valid |-> TRUE, day |-> d]
NewDate(s) ==
    CASE s = "2024-01-10" -> ValidDate(10)
      [] s = "2024-01-12" -> ValidDate(12)
      [] s = "2024-01-15" -> ValidDate(15)
      [] OTHER -> InvalidDate

\* The events pushed for the articles, then for the earnings reports
NewsEvent(article) ==
    [type |-> "news", date |-> NewDate(article.publishedAt), title |-> article.title]
EarningsEvent(earning) ==
    [type |-> "earnings", date |-> NewDate(earning.reportDate), title |-> earning.period]
Pushed(news, earnings) ==
    [i \in 1..Len(news) |-> NewsEvent(news[i])]
    \o [i \in 1..Len(earnings) |-> EarningsEvent(earnings[i])]

\* (a, b) => b.date - a.date: the difference of two dates is NaN when either
\* is invalid
NaN == [nan |-> TRUE, n |-> 0]
Finite(n) == [nan |-> FALSE, n |-> n]
compareDates(a, b) ==
    IF a.date.valid /\ b.date.valid THEN Finite(b.date.day - a.date.day) ELSE NaN

\* Array.prototype.sort reads a NaN from the comparator as +0
CompareValue(v) == IF v.nan THEN 0 ELSE v.n

\* The comparator is consistent on the events when "compares equal" is
\* transitive on them; it is not once an invalid date (equal to everything)
\* meets two different valid ones
Consistent(events) ==
    \A i, j, k \in 1..Len(events) :
        (CompareValue(compareDates(events[i], events[j])) = 0
         /\ CompareValue(compareDates(events[j], events[k])) = 0)
            => CompareValue(compareDates(events[i], events[k])) = 0

\* The stable sort of a consistent comparator: x goes behind every element
\* that does not compare greater than it
RECURSIVE InsertSorted(_, _)
InsertSorted(x, sorted) ==
    IF sorted = <<>> THEN <<x>>
    ELSE IF CompareValue(compareDates(Head(sorted), x)) <= 0
    THEN <<Head(sorted)>> \o InsertSorted(x, Tail(sorted))
    ELSE <<x>> \o sorted
RECURSIVE StableSort(_)
StableSort(events) ==
    IF events = <<>> THEN <<>>
    ELSE InsertSorted(events[Len(events)], StableSort(SubSeq(events, 1, Len(events) - 1)))

\* The orders of the events, each event once
Orders(events) ==
    {[i \in 1..Len(events) |-> events[f[i]]] :
        f \in {g \in [1..Len(events) -> 1..Len(events)] :
                \A i, j \in 1..Len(events) : i # j => g[i] # g[j]}}

\* timeline.sort(compare): the stable sort when the comparator is
\* consistent, an order the engine chooses when it is not
sort(events) == IF Consistent(events) THEN {StableSort(events)} ELSE Orders(events)

\* createTimeline(news, earnings)
createTimeline(news, earnings) == sort(Pushed(news, earnings))

CreateTimeline ==
    /\ op = NoOp
    /\ \E timeline \in createTimeline(input.news, input.earnings) :
        op' = [name |-> "createTimeline", result |-> timeline]
    /\ UNCHANGED <<clockVars, utilVars, pageVars, callVars, written, win, input>>

\* TickerPage.processStockData(stockData): the timeline it attaches to the
\* processed record; createTimeline is handed the news alone and takes its
\* default [] for the earnings
ProcessStockData ==
    /\ op = NoOp
    /\ \E timeline \in createTimeline(input.news, <<>>) :
        op' = [name |-> "processStockData", timeline |-> timeline]
    /\ UNCHANGED <<clockVars, utilVars, pageVars, callVars, written, win, input>>

InitTimeline == InitIdle /\ input \in TimelineArguments
NextTimeline == CreateTimeline \/ ProcessStockData
SpecTimeline == InitTimeline /\ [][NextTimeline]_vars

\* C14: the timeline holds exactly one event per article and per earnings
\* report; of two events with valid dates the newer one comes first, and
\* events of equal date stay in the order they were handed in (articles
\* before reports).
C14_TimelineOrdering ==
    op.name = "createTimeline" =>
        LET in == Pushed(input.news, input.earnings)
            out == op.result
        IN  /\ Len(out) = Len(in)
            /\ \E f \in [1..Len(out) -> 1..Len(in)] :
                /\ \A i, j \in 1..Len(out) : i # j => f[i] # f[j]
                /\ \A i \in 1..Len(out) : out[i] = in[f[i]]
                /\ \A i, j \in 1..Len(out) :
                    (i < j /\ out[i].date.valid /\ out[j].date.valid) =>
                        \/ out[i].date.day > out[j].date.day
                        \/ (out[i].date.day = out[j].date.day /\ f[i] < f[j])

-----------------------------------------------------------------------------
(* data.js: analyzeSentiment; api.js: analyzeRedditSentiment *)

\* Most words of a text handed to the scorers (the two longer texts of the
\* examples are added to them).
MaxWords == 3

\* A text is a sequence of characters; an emoji is one character
positiveWords ==
    <<<<"p", "o", "s", "i", "t", "i", "v", "e">>, <<"g", "r", "o", "w", "t", "h">>, <<"i", "n", "c", "r", "e", "a", "s", "e">>, <<"u", "p">>,
       <<"h", "i", "g", "h", "e", "r">>, <<"s", "t", "r", "o", "n", "g">>, <<"p", "r", "o", "f", "i", "t">>, <<"g", "a", "i", "n">>,
       <<"s", "u", "c", "c", "e", "s", "s">>, <<"w", "i", "n">>, <<"b", "e", "a", "t">>, <<"e", "x", "c", "e", "e", "d">>,
       <<"s", "u", "r", "g", "e">>, <<"r", "a", "l", "l", "y">>, <<"b", "u", "l", "l", "i", "s", "h">>, <<"o", "p", "t", "i", "m", "i", "s", "t", "i", "c">>,
       <<"i", "m", "p", "r", "o", "v", "e">>, <<"b", "e", "t", "t", "e", "r">>, <<"e", "x", "c", "e", "l", "l", "e", "n", "t">>, <<"o", "u", "t", "p", "e", "r", "f", "o", "r", "m">>,
       <<"u", "p", "g", "r", "a", "d", "e">>, <<"b", "u", "y">>, <<"s", "t", "r", "o", "n", "g">>>>

negativeWords ==
    <<<<"n", "e", "g", "a", "t", "i", "v", "e">>, <<"d", "e", "c", "l", "i", "n", "e">>, <<"d", "e", "c", "r", "e", "a", "s", "e">>, <<"d", "o", "w", "n">>,
       <<"l", "o", "w", "e", "r">>, <<"w", "e", "a", "k">>, <<"l", "o", "s", "s">>, <<"d", "r", "o", "p">>,
       <<"f", "a", "i", "l">>, <<"l", "o", "s", "e">>, <<"m", "i", "s", "s">>, <<"f", "a", "l", "l">>,
       <<"c", "r", "a", "s", "h">>, <<"b", "e", "a", "r", "i", "s", "h">>, <<"p", "e", "s", "s", "i", "m", "i", "s", "t", "i", "c">>, <<"w", "o", "r", "s", "e">>,
       <<"u", "n", "d", "e", "r", "p", "e", "r", "f", "o", "r", "m">>, <<"d", "o", "w", "n", "g", "r", "a", "d", "e">>, <<"s", "e", "l", "l">>, <<"w", "e", "a", "k">>,
       <<"c", "o", "n", "c", "e", "r", "n">>, <<"r", "i", "s", "k">>, <<"v", "o", "l", "a", "t", "i", "l", "e">>>>

redditPositiveWords ==
    <<<<"p", "o", "s", "i", "t", "i", "v", "e">>, <<"g", "r", "o", "w", "t", "h">>, <<"i", "n", "c", "r", "e", "a", "s", "e">>, <<"u", "p">>,
       <<"h", "i", "g", "h", "e", "r">>, <<"s", "t", "r", "o", "n", "g">>, <<"p", "r", "o", "f", "i", "t">>, <<"g", "a", "i", "n">>,
       <<"s", "u", "c", "c", "e", "s", "s">>, <<"w", "i", "n">>, <<"b", "e", "a", "t">>, <<"e", "x", "c", "e", "e", "d">>,
       <<"s", "u", "r", "g", "e">>, <<"r", "a", "l", "l", "y">>, <<"b", "u", "l", "l", "i", "s", "h">>, <<"o", "p", "t", "i", "m", "i", "s", "t", "i", "c">>,
       <<"i", "m", "p", "r", "o", "v", "e">>, <<"b", "e", "t", "t", "e", "r">>, <<"e", "x", "c", "e", "l", "l", "e", "n", "t">>, <<"o", "u", "t", "p", "e", "r", "f", "o", "r", "m">>,
       <<"u", "p", "g", "r", "a", "d", "e">>, <<"b", "u", "y">>, <<"s", "t", "r", "o", "n", "g">>, <<"m", "o", "o", "n">>,
       <<"rocket">>, <<"gem">>, <<"h", "o", "d", "l">>, <<"d", "i", "a", "m", "o", "n", "d">>,
       <<"h", "a", "n", "d", "s">>>>

redditNegativeWords ==
    <<<<"n", "e", "g", "a", "t", "i", "v", "e">>, <<"f", "a", "l", "l">>, <<"d", "r", "o", "p">>, <<"l", "o", "s", "s">>,
       <<"d", "e", "c", "l", "i", "n", "e">>, <<"w", "e", "a", "k">>, <<"c", "o", "n", "c", "e", "r", "n">>, <<"r", "i", "s", "k">>,
       <<"d", "o", "w", "n">>, <<"l", "o", "w", "e", "r">>, <<"c", "r", "a", "s", "h">>, <<"b", "e", "a", "r", "i", "s", "h">>,
       <<"p", "e", "s", "s", "i", "m", "i", "s", "t", "i", "c">>, <<"w", "o", "r", "s", "e">>, <<"s", "e", "l", "l">>, <<"d", "u", "m", "p">>,
       <<"p", "a", "p", "e", "r">>, <<"h", "a", "n", "d", "s">>, <<"poo">>, <<"chart_down">>>>

\* The words the texts are made of
Vocabulary ==
    {<<"g", "r", "o", "w", "t", "h">>, <<"a", "n", "d">>, <<"s", "t", "r", "o", "n", "g">>, <<"c", "r", "a", "s", "h">>,
     <<"l", "o", "s", "s">>, <<"u", "p", "g", "r", "a", "d", "e">>, <<"h", "a", "n", "d", "s">>, <<"S", "t", "r", "o", "n", "g">>,
     <<"rocket">>, <<"P", "r", "o", "f", "i", "t", "s">>}

\* title + ' ' + description: words with one blank between them
RECURSIVE Sentence(_)
Sentence(ws) ==
    IF ws = <<>> THEN <<>>
    ELSE IF Len(ws) = 1 THEN ws[1]
    ELSE ws[1] \o <<" ">> \o Sentence(Tail(ws))
GreatGrowth == Sentence(<<<<"g", "r", "e", "a", "t">>, <<"g", "r", "o", "w", "t", "h">>, <<"a", "n", "d">>, <<"s", "t", "r", "o", "n", "g">>, <<"p", "r", "o", "f", "i", "t">>>>)
CrashDecline == Sentence(<<<<"c", "r", "a", "s", "h">>, <<"d", "e", "c", "l", "i", "n", "e">>, <<"w", "e", "a", "k">>, <<"l", "o", "s", "s">>>>)
Texts ==
    {Sentence(ws) : ws \in UNION {[1..k -> Vocabulary] : k \in 0..MaxWords}}
        \cup {GreatGrowth, CrashDecline}

\* String.prototype.toLowerCase
LowerChar(c) ==
    CASE c = "S" -> "s"
      [] c = "A" -> "a"
      [] c = "B" -> "b"
      [] c = "P" -> "p"
      [] OTHER -> c
toLowerCase(s) == [i \in 1..Len(s) |-> LowerChar(s[i])]

\* String.prototype.split(/\s+/): cut at every run of blanks (word is the
\* piece being read)
RECURSIVE SplitFrom(_, _)
SplitFrom(s, word) ==
    IF s = <<>> THEN <<word>>
    ELSE IF Head(s) \in Whitespace
    THEN <<word>> \o SplitFrom(TrimLeft(s), <<>>)
    ELSE SplitFrom(Tail(s), Append(word, Head(s)))
split(s) == SplitFrom(s, <<>>)

\* Array.prototype.includes
includes(list, x) == \E i \in 1..Len(list) : list[i] = x

\* words.forEach(word => { if (list.includes(word)) count++ })
RECURSIVE CountIncluded(_, _)
CountIncluded(words, list) ==
    IF words = <<>> THEN 0
    ELSE (IF includes(list, Head(words)) THEN 1 ELSE 0) + CountIncluded(Tail(words), list)

\* textLower.match(new RegExp(word, 'gi')): the matches from left to right,
\* each starting where the one before ended; how many there are
RECURSIVE match(_, _)
match(text, word) ==
    IF Len(text) < Len(word) THEN 0
    ELSE IF SubSeq(text, 1, Len(word)) = word
    THEN 1 + match(SubSeq(text, Len(word) + 1, Len(text)), word)
    ELSE match(Tail(text), word)

\* list.forEach(word => { ...; if (matches) count += matches.length })
RECURSIVE CountMatches(_, _)
CountMatches(text, list) ==
    IF list = <<>> THEN 0
    ELSE match(text, Head(list)) + CountMatches(text, Tail(list))

\* A labelling that calls a score of zero positive
LabelledFromZero(score, positiveCount, negativeCount) ==
    [score |-> score,
     sentiment |-> IF score >= 0 THEN "positive" ELSE "negative",
     positiveCount |-> positiveCount, negativeCount |-> negativeCount]

\* The three returns at the end of both scorers (the counts are kept beside
\* the result)
Labelled(score, positiveCount, negativeCount) ==
    [score |-> score,
     sentiment |-> IF score > 0 THEN "positive"
                   ELSE IF score < 0 THEN "negative" ELSE "neutral",
     positiveCount |-> positiveCount, negativeCount |-> negativeCount]

Scored(positiveCount, negativeCount) ==
    Labelled(positiveCount - negativeCount, positiveCount, negativeCount)

\* analyzeSentiment(text)
analyzeSentiment(text) ==
    IF text = <<>> THEN Labelled(0, 0, 0)
    ELSE Scored(CountIncluded(split(toLowerCase(text)), positiveWords),
                CountIncluded(split(toLowerCase(text)), negativeWords))

\* analyzeRedditSentiment(text)
analyzeRedditSentiment(text) ==
    IF text = <<>> THEN Labelled(0, 0, 0)
    ELSE Scored(CountMatches(toLowerCase(text), redditPositiveWords),
                CountMatches(toLowerCase(text), redditNegativeWords))

AnalyzeSentiment ==
    /\ op = NoOp
    /\ op' = [name |-> "analyzeSentiment", result |-> analyzeSentiment(input.s)]
    /\ UNCHANGED <<clockVars, utilVars, pageVars, callVars, written, win, input>>

AnalyzeRedditSentiment ==
    /\ op = NoOp
    /\ op' = [name |-> "analyzeRedditSentiment", result |-> analyzeRedditSentiment(input.s)]
    /\ UNCHANGED <<clockVars, utilVars, pageVars, callVars, written, win, input>>

InitSentiment == InitIdle /\ input \in {Str(s) : s \in Texts}
NextSentiment == AnalyzeSentiment \/ AnalyzeRedditSentiment
SpecSentiment == InitSentiment /\ [][NextSentiment]_vars

\* The words of a text that are on a list: the stretches between blanks
\* (or the ends of the text) that, in lower case, equal an entry
WordsOn(text, list) ==
    {<<i, j>> \in (1..Len(text)) \X (1..Len(text)) :
        /\ i <= j
        /\ \A k \in i..j : text[k] \notin Whitespace
        /\ (i = 1 \/ text[i - 1] \in Whitespace)
        /\ (j = Len(text) \/ text[j + 1] \in Whitespace)
        /\ includes(list, toLowerCase(SubSeq(text, i, j)))}

\* The places of a text where an entry of a list occurs, in lower case
OccurrencesOf(text, list) ==
    {<<e, i>> \in (1..Len(list)) \X (1..Len(text)) :
        /\ i + Len(list[e]) - 1 <= Len(text)
        /\ toLowerCase(SubSeq(text, i, i + Len(list[e]) - 1)) = list[e]}

\* C15: both scorers return the number of positive-list matches minus the
\* number of negative-list matches, labelled positive above zero, negative
\* below zero and neutral at zero; "great growth and strong profit" scores
\* above zero, "crash decline weak loss" below, and the empty text scores
\* zero and is neutral.
C15_SentimentRule ==
    op.name \in {"analyzeSentiment", "analyzeRedditSentiment"} =>
        /\ op.name = "analyzeSentiment" =>
            op.result.score = Cardinality(WordsOn(input.s, positiveWords))
                              - Cardinality(WordsOn(input.s, negativeWords))
        /\ op.name = "analyzeRedditSentiment" =>
            op.result.score = Cardinality(OccurrencesOf(input.s, redditPositiveWords))
                              - Cardinality(OccurrencesOf(input.s, redditNegativeWords))
        /\ op.result.score = op.result.positiveCount - op.result.negativeCount
        /\ op.result.sentiment = "positive" <=> op.result.score > 0
        /\ op.result.sentiment = "negative" <=> op.result.score < 0
        /\ op.result.sentiment = "neutral" <=> op.result.score = 0
        /\ input.s = GreatGrowth =>
            (op.result.score > 0 /\ op.result.sentiment = "positive")
        /\ input.s = CrashDecline =>
            (op.result.score < 0 /\ op.result.sentiment = "negative")
        /\ input.s = <<>> => (op.result.score = 0 /\ op.result.sentiment = "neutral")

\* A text with as many positive as negative words is scored zero and neutral
C15_Witness ==
    /\ op.name = "analyzeSentiment"
    /\ input.s = Sentence(<<<<"g", "r", "o", "w", "t", "h">>, <<"c", "r", "a", "s", "h">>, <<"a", "n", "d">>>>)
    /\ op.result.positiveCount = 1
    /\ op.result.negativeCount = 1
    /\ op.result.sentiment = "neutral"

-----------------------------------------------------------------------------
(* data.js: categorizeNews *)

\* The keywords of the six groups, in the order of the if statements
earningsKeywords == <<<<"e", "a", "r", "n", "i", "n", "g", "s">>, <<"q", "u", "a", "r", "t", "e", "r", "l", "y">>, <<"f", "i", "n", "a", "n", "c", "i", "a", "l">>>>
mergerKeywords == <<<<"m", "e", "r", "g", "e", "r">>, <<"a", "c", "q", "u", "i", "s", "i", "t", "i", "o", "n">>, <<"d", "e", "a", "l">>>>
productKeywords == <<<<"p", "r", "o", "d", "u", "c", "t">>, <<"l", "a", "u", "n", "c", "h">>, <<"r", "e", "l", "e", "a", "s", "e">>>>
leadershipKeywords == <<<<"c", "e", "o">>, <<"e", "x", "e", "c", "u", "t", "i", "v", "e">>, <<"l", "e", "a", "d", "e", "r", "s", "h", "i", "p">>>>
regulatoryKeywords == <<<<"r", "e", "g", "u", "l", "a", "t", "i", "o", "n">>, <<"l", "e", "g", "a", "l">>, <<"l", "a", "w", "s", "u", "i", "t">>>>
marketKeywords == <<<<"m", "a", "r", "k", "e", "t">>, <<"t", "r", "a", "d", "i", "n", "g">>, <<"s", "t", "o", "c", "k">>>>

\* The words the categorized texts are made of
NewsVocabulary ==
    {<<"e", "a", "r", "n", "i", "n", "g", "s">>, <<"q", "u", "a", "r", "t", "e", "r", "l", "y">>, <<"i", "d", "e", "a", "l">>, <<"l", "a", "u", "n", "c", "h">>,
     <<"c", "e", "o">>, <<"l", "a", "w", "s", "u", "i", "t">>, <<"S", "t", "o", "c", "k">>, <<"a", "n", "d">>,
     <<"g", "r", "e", "a", "t">>}
Headlines ==
    {Sentence(ws) : ws \in UNION {[1..k -> NewsVocabulary] : k \in 0..MaxWords}}

\* String.prototype.includes
stringIncludes(text, word) ==
    \E i \in 1..(Len(text) - Len(word) + 1) : SubSeq(text, i, i + Len(word) - 1) = word

\* textLower.includes(k1) || textLower.includes(k2) || textLower.includes(k3)
IncludesAny(textLower, keywords) ==
    \E i \in 1..Len(keywords) : stringIncludes(textLower, keywords[i])

\* A categorizer that looks for the market keywords first
categorizeNewsMarketFirst(text) ==
    IF text = <<>> THEN "general"
    ELSE IF IncludesAny(toLowerCase(text), marketKeywords) THEN "market"
    ELSE IF IncludesAny(toLowerCase(text), earningsKeywords) THEN "earnings"
    ELSE IF IncludesAny(toLowerCase(text), mergerKeywords) THEN "m&a"
    ELSE IF IncludesAny(toLowerCase(text), productKeywords) THEN "product"
    ELSE IF IncludesAny(toLowerCase(text), leadershipKeywords) THEN "leadership"
    ELSE IF IncludesAny(toLowerCase(text), regulatoryKeywords) THEN "regulatory"
    ELSE "general"

\* categorizeNews(text)
categorizeNews(text) ==
    IF text = <<>> THEN "general"
    ELSE IF IncludesAny(toLowerCase(text), earningsKeywords) THEN "earnings"
    ELSE IF IncludesAny(toLowerCase(text), mergerKeywords) THEN "m&a"
    ELSE IF IncludesAny(toLowerCase(text), productKeywords) THEN "product"
    ELSE IF IncludesAny(toLowerCase(text), leadershipKeywords) THEN "leadership"
    ELSE IF IncludesAny(toLowerCase(text), regulatoryKeywords) THEN "regulatory"
    ELSE IF IncludesAny(toLowerCase(text), marketKeywords) THEN "market"
    ELSE "general"

CategorizeNews ==
    /\ op = NoOp
    /\ op' = [name |-> "categorizeNews", result |-> categorizeNews(input.s)]
    /\ UNCHANGED <<clockVars, utilVars, pageVars, callVars, written, win, input>>

\* processNewsArticles: the category of one article
ProcessNewsArticle ==
    /\ op = NoOp
    /\ op' = [name |-> "processNewsArticles",
              result |-> [category |-> categorizeNews(input.s),
                          sentiment |-> analyzeSentiment(input.s)]]
    /\ UNCHANGED <<clockVars, utilVars, pageVars, callVars, written, win, input>>

InitCategory == InitIdle /\ input \in {Str(s) : s \in Headlines}
NextCategory == CategorizeNews \/ ProcessNewsArticle
SpecCategory == InitCategory /\ [][NextCategory]_vars

\* The groups in the order they are checked
CategoryGroups ==
    <<[category |-> "earnings", keywords |-> earningsKeywords],
      [category |-> "m&a", keywords |-> mergerKeywords],
      [category |-> "product", keywords |-> productKeywords],
      [category |-> "leadership", keywords |-> leadershipKeywords],
      [category |-> "regulatory", keywords |-> regulatoryKeywords],
      [category |-> "market", keywords |-> marketKeywords]>>

\* The groups that have a keyword occurring in the text, in lower case
MatchingGroups(text) ==
    {g \in 1..Len(CategoryGroups) :
        \E k \in 1..Len(CategoryGroups[g].keywords) :
            \E i \in 1..Len(text) :
                /\ i + Len(CategoryGroups[g].keywords[k]) - 1 <= Len(text)
                /\ toLowerCase(SubSeq(text, i, i + Len(CategoryGroups[g].keywords[k]) - 1))
                    = CategoryGroups[g].keywords[k]}

CategoryOf(result) == IF op.name = "categorizeNews" THEN result ELSE result.category

\* C16: the category is that of the first group, in the order earnings, m&a,
\* product, leadership, regulatory, market, with a keyword occurring in the
\* lowercased text, and general when no group matches or the text is empty;
\* it is always one of the seven categories.
C16_FirstMatchWins ==
    op.name \in {"categorizeNews", "processNewsArticles"} =>
        /\ CategoryOf(op.result) \in
            {"earnings", "m&a", "product", "leadership", "regulatory", "market", "general"}
        /\ MatchingGroups(input.s) = {} <=> CategoryOf(op.result) = "general"
        /\ \A g \in MatchingGroups(input.s) :
            (\A h \in MatchingGroups(input.s) : g <= h) =>
                CategoryOf(op.result) = CategoryGroups[g].category
        /\ input.s = <<>> => CategoryOf(op.result) = "general"

\* A text with a market keyword ahead of an earnings keyword is earnings news
C16_Witness ==
    /\ op.name = "categorizeNews"
    /\ input.s = Sentence(<<<<"S", "t", "o", "c", "k">>, <<"i", "d", "e", "a", "l">>, <<"q", "u", "a", "r", "t", "e", "r", "l", "y">>>>)
    /\ MatchingGroups(input.s) = {1, 2, 6}
    /\ op.result = "earnings"

-----------------------------------------------------------------------------
(* utils.js: formatNumber, formatCurrency, formatPercentage; data.js:
   formatStockDataForDisplay; ui.js: updateOverviewCards *)

Undefined == [t |-> "undefined"]
Thrown == [t |-> "thrown"]
NotAvailable == Str(<<"N", "/", "A">>)

\* x / 100, kept as a number of hundredths
Hundredth(x) == [t |-> "number", n |-> x.n, per |-> 100]

\* !x for a value that may also be undefined
Not(x) == x = Undefined \/ Falsy(x)

\* object?.field
Chain(object, field) == IF object \in {Null, Undefined} THEN Undefined ELSE object[field]

\* Number.prototype.toString of a whole number
DigitChars == <<"0", "1", "2", "3", "4", "5", "6", "7", "8", "9">>
RECURSIVE Digits(_)
Digits(n) ==
    IF n < 10 THEN <<DigitChars[n + 1]>>
    ELSE Digits(n \div 10) \o <<DigitChars[(n % 10) + 1]>>
toString(n) == IF n < 0 THEN <<"-">> \o Digits(0 - n) ELSE Digits(n)

\* .replace(/\B(?=(\d{3})+(?!\d))/g, ','): a comma behind every digit that
\* has a multiple of three digits after it
RECURSIVE ReplaceFrom(_, _)
ReplaceFrom(s, i) ==
    IF i > Len(s) THEN <<>>
    ELSE <<s[i]>>
         \o (IF i < Len(s) /\ s[i] # "-" /\ (Len(s) - i) % 3 = 0 THEN <<",">> ELSE <<>>)
         \o ReplaceFrom(s, i + 1)
replace(s) == ReplaceFrom(s, 1)

\* (num / den).toFixed(1) and .toFixed(2) for num >= 0 that is not half way
\* between two results
toFixed1(num, den) ==
    Digits(((num * 10 + den \div 2) \div den) \div 10)
    \o <<".", DigitChars[(((num * 10 + den \div 2) \div den) % 10) + 1]>>
toFixed2(n) == toString(n) \o <<".", "0", "0">>

\* formatNumber(num)
formatNumber(num) ==
    IF num = Null \/ num = Undefined THEN NotAvailable
    ELSE Str(replace(toString(num.n)))

\* formatCurrency(amount): Intl.NumberFormat('en-US', currency USD) of a
\* whole amount
formatCurrency(amount) ==
    IF amount = Null \/ amount = Undefined THEN NotAvailable
    ELSE Str((IF amount.n < 0 THEN <<"-">> ELSE <<>>) \o <<"$">>
             \o replace(Digits(IF amount.n < 0 THEN 0 - amount.n ELSE amount.n))
             \o <<".", "0", "0">>)

\* formatPercentage(value): (value * 100).toFixed(2) + '%'
formatPercentage(value) ==
    IF value = Null \/ value = Undefined THEN NotAvailable
    ELSE Str(toFixed2(IF "per" \in DOMAIN value THEN value.n ELSE value.n * 100) \o <<"%">>)

\* The fields of the display record that are built from numbers
DisplayRecord(overview, quote) ==
    [t |-> "display",
     price |-> IF Not(Chain(quote, "price")) THEN NotAvailable
               ELSE formatCurrency(quote.price),
     change |-> IF Not(Chain(quote, "change")) THEN NotAvailable
                ELSE formatCurrency(quote.change),
     changePercent |-> IF Not(Chain(quote, "changePercent")) THEN NotAvailable
                       ELSE formatPercentage(Hundredth(quote.changePercent)),
     isPositive |-> Chain(quote, "change") \notin {Null, Undefined}
                    /\ Chain(quote, "change").n > 0,
     isNegative |-> Chain(quote, "change") \notin {Null, Undefined}
                    /\ Chain(quote, "change").n < 0,
     marketCap |-> IF Not(Chain(overview, "marketCap")) THEN NotAvailable
                   ELSE formatCurrency(overview.marketCap),
     peRatio |-> IF Not(Chain(overview, "peRatio")) THEN NotAvailable
                 ELSE Str(toFixed2(overview.peRatio.n)),
     volume |-> IF Not(Chain(quote, "volume")) THEN NotAvailable
                ELSE formatNumber(quote.volume)]

\* A formatter that reads quote.price and overview.marketCap without ?.
formatStockDataForDisplayUnguarded(stockData) ==
    IF stockData.quote = Null \/ stockData.overview = Null THEN Thrown
    ELSE DisplayRecord(stockData.overview, stockData.quote)

\* formatStockDataForDisplay(stockData)
formatStockDataForDisplay(stockData) ==
    DisplayRecord(stockData.overview, stockData.quote)

\* updateOverviewCards: the text put in the marketCap element
MarketCapText(marketCapValue) ==
    IF marketCapValue >= 1000000
    THEN Str(<<"$">> \o toFixed1(marketCapValue, 1000000) \o <<"T">>)
    ELSE IF marketCapValue >= 1000
    THEN Str(<<"$">> \o toFixed1(marketCapValue, 1000) \o <<"B">>)
    ELSE Str(<<"$">> \o toFixed1(marketCapValue, 1) \o <<"M">>)
updateOverviewCards(stockData) ==
    IF stockData.overview = Null THEN [t |-> "cards", marketCap |-> Undefined]
    ELSE [t |-> "cards",
          marketCap |-> IF Not(stockData.overview.marketCap) THEN NotAvailable
                        ELSE MarketCapText(stockData.overview.marketCap.n)]

\* Market capitalizations in millions, as processFinnhubProfile leaves them
MarketCaps ==
    {Null} \cup {Num(v) : v \in {1, 999, 1000, 1500, 999900, 1000000, 1234567, 3000000}}
Overviews ==
    {Null} \cup {[t |-> "object", marketCap |-> m, peRatio |-> p] :
                    m \in MarketCaps, p \in {Null, Num(25)}}
Quotes ==
    {Null,
     [t |-> "object", price |-> Null, change |-> Null, changePercent |-> Null,
      volume |-> Null],
     [t |-> "object", price |-> Num(150), change |-> Num(0 - 2), changePercent |-> Num(0 - 1),
      volume |-> Num(1234567)],
     [t |-> "object", price |-> Num(1500), change |-> Num(0), changePercent |-> Num(0),
      volume |-> Null]}
StockDataArguments ==
    {[t |-> "stockData", overview |-> o, quote |-> q] : o \in Overviews, q \in Quotes}
FormatArguments == {Null, Undefined, Num(0), Num(5), Num(1500), Num(0 - 1500), Num(1234567)}

UpdateOverviewCards ==
    /\ op = NoOp
    /\ input.t = "stockData"
    /\ op' = [name |-> "updateOverviewCards", result |-> updateOverviewCards(input)]
    /\ UNCHANGED <<clockVars, utilVars, pageVars, callVars, written, win, input>>

FormatStockDataForDisplay ==
    /\ op = NoOp
    /\ input.t = "stockData"
    /\ op' = [name |-> "formatStockDataForDisplay",
              result |-> formatStockDataForDisplay(input)]
    /\ UNCHANGED <<clockVars, utilVars, pageVars, callVars, written, win, input>>

FormatNumber ==
    /\ op = NoOp
    /\ input.t # "stockData"
    /\ op' = [name |-> "formatNumber", result |-> formatNumber(input)]
    /\ UNCHANGED <<clockVars, utilVars, pageVars, callVars, written, win, input>>

FormatCurrency ==
    /\ op = NoOp
    /\ input.t # "stockData"
    /\ op' = [name |-> "formatCurrency", result |-> formatCurrency(input)]
    /\ UNCHANGED <<clockVars, utilVars, pageVars, callVars, written, win, input>>

FormatPercentage ==
    /\ op = NoOp
    /\ input.t # "stockData"
    /\ op' = [name |-> "formatPercentage", result |-> formatPercentage(input)]
    /\ UNCHANGED <<clockVars, utilVars, pageVars, callVars, written, win, input>>

InitDisplay == InitIdle /\ input \in StockDataArguments \cup FormatArguments
NextDisplay ==
    \/ UpdateOverviewCards
    \/ FormatStockDataForDisplay
    \/ FormatNumber
    \/ FormatCurrency
    \/ FormatPercentage
SpecDisplay == InitDisplay /\ [][NextDisplay]_vars

\* The market capitalization a display is made from, when there is one
HasMarketCap ==
    /\ input.t = "stockData"
    /\ input.overview # Null
    /\ input.overview.marketCap # Null

\* C17: a market capitalization, which is in millions, is shown in trillions
\* (value / 1000000) from 1000000 on, in billions (value / 1000) from 1000 on
\* and in millions below; 3000000 is shown as 3 trillion.
C17_MarketCapUnits ==
    (op.name \in {"updateOverviewCards", "formatStockDataForDisplay"} /\ HasMarketCap) =>
        LET v == input.overview.marketCap.n
            shown == op.result.marketCap.s
        IN  /\ v >= 1000000 =>
                shown = <<"$">> \o toFixed1(v, 1000000) \o <<"T">>
            /\ (v >= 1000 /\ v < 1000000) =>
                shown = <<"$">> \o toFixed1(v, 1000) \o <<"B">>
            /\ v < 1000 => shown = <<"$">> \o toFixed1(v, 1) \o <<"M">>
            /\ v = 3000000 => shown = <<"$", "3", ".", "0", "T">>

\* C19: formatNumber, formatCurrency and formatPercentage return 'N/A' for
\* null and for undefined, and formatStockDataForDisplay of a record whose
\* quote and overview are null returns 'N/A' for price, change,
\* changePercent, marketCap, peRatio and volume and does not throw.
C19_MissingValuesNeverThrow ==
    /\ (op.name \in {"formatNumber", "formatCurrency", "formatPercentage"}
        /\ input \in {Null, Undefined}) => op.result = NotAvailable
    /\ (op.name = "formatStockDataForDisplay" /\ input.quote = Null /\ input.overview = Null) =>
        /\ op.result # Thrown
        /\ op.result.t = "display"
        /\ \A f \in {"price", "change", "changePercent", "marketCap", "peRatio", "volume"} :
            op.result[f] = NotAvailable
C19_Witness ==
    /\ op.name = "formatStockDataForDisplay"
    /\ input.quote = Null
    /\ input.overview = Null
    /\ op.result.volume = NotAvailable
    /\ ~op.result.isPositive

-----------------------------------------------------------------------------
(* api.js: getRedditAccessToken *)

\* The token store and the URL fragment when the page loads: no token or a
\* stored one; no expiry, an expiry half a minute ahead or one already past;
\* nothing, a token or an OAuth error in the fragment.
TokenStores ==
    [tok : {"", "stored"},
     exp : {0, StartTime + 30000, StartTime - 1},
     hash : {"none", "token", "error"}]

InitToken ==
    /\ InitClock /\ InitUtils /\ InitCalls /\ InitObs
    /\ input = Null
    /\ mockMode = FALSE /\ mockData = FALSE /\ location = "app"
    /\ \E store \in TokenStores :
        storedToken = store.tok /\ tokenExpiry = store.exp /\ urlHash = store.hash

\* getRedditAccessToken()
GetRedditAccessToken ==
    /\ \E r \in {getRedditAccessToken(Env, now)} :
        /\ storedToken' = r.env.tok
        /\ tokenExpiry' = r.env.exp
        /\ urlHash' = r.env.hash
        /\ op' = [name |-> "getRedditAccessToken", kind |-> r.kind, token |-> r.token,
                  at |-> now, tokBefore |-> storedToken, expBefore |-> tokenExpiry,
                  hashBefore |-> urlHash]
    /\ UNCHANGED <<clockVars, utilVars, mockMode, mockData, location, callVars,
                   written, win, input>>

NextToken == Advance \/ GetRedditAccessToken
SpecToken == InitToken /\ [][NextToken]_vars

\* The call found a stored value whose expiry was still ahead
StoredValid == op.tokBefore # "" /\ op.expBefore # 0 /\ op.at < op.expBefore
ReturnedStored ==
    /\ op.kind = "token"
    /\ op.token = op.tokBefore
    /\ storedToken = op.tokBefore /\ tokenExpiry = op.expBefore /\ urlHash = op.hashBefore

\* C18 as stated: the stored token is returned only when a stored value
\* exists and now < its expiry; otherwise, with no fresh token in the URL
\* fragment, the call fails with the authentication-required error.
C18_TokenValidity ==
    op.name = "getRedditAccessToken" =>
        /\ StoredValid <=> ReturnedStored
        /\ (~StoredValid /\ op.hashBefore # "token") => op.kind = "no_token"

\* C18, amended: as above, but when the URL fragment carries an OAuth error
\* the call fails with that OAuth error instead of the
\* authentication-required error.
C18_TokenValidityAmended ==
    op.name = "getRedditAccessToken" =>
        /\ StoredValid <=> ReturnedStored
        /\ (~StoredValid /\ op.hashBefore = "none") => op.kind = "no_token"
        /\ (~StoredValid /\ op.hashBefore = "error") => op.kind = "throw"
        /\ (~StoredValid /\ op.hashBefore # "token") =>
            (storedToken = op.tokBefore /\ tokenExpiry = op.expBefore)

\* The stored token is asked for at the very millisecond of its expiry
C18_Witness ==
    /\ op.name = "getRedditAccessToken"
    /\ op.tokBefore = "stored"
    /\ op.at = op.expBefore
    /\ op.hashBefore = "none"
    /\ op.kind = "no_token"

-----------------------------------------------------------------------------
(* js/api.js: searchCompanies and the cooldown sentinel *)

\* Most searchCompanies calls in a behaviour.
MaxSearches == 3

\* setCache(rateLimitKey, Date.now(), 60000)
SentinelTtl == 60000

SearchKeywords == {<<"a">>, <<"A">>, <<"a", " ", "B">>}

\* .replace(/\s+/g, '_')
RECURSIVE Underscored(_)
Underscored(s) ==
    IF s = <<>> THEN <<>>
    ELSE IF Head(s) \in Whitespace THEN <<"_">> \o Underscored(TrimLeft(s))
    ELSE <<Head(s)>> \o Underscored(Tail(s))
SearchKey(keywords) == <<"company_search_">> \o Underscored(toLowerCase(keywords))

\* What Alpha Vantage can answer a search with: a failed request, the body
\* null, an 'Error Message', a 'Note' (its soft limit), or matches.
NoteBody == [t |-> "note"]
SearchResponses(key) ==
    {[kind |-> "httperr", body |-> Null],
     [kind |-> "json", body |-> Null],
     [kind |-> "json", body |-> ErrorBody("search")],
     [kind |-> "json", body |-> NoteBody],
     [kind |-> "json", body |-> Data("search", key, 1)]}

\* A search that throws on a 'Note' without leaving a sentinel
searchCompaniesForgetful(E, key, data, t) ==
    IF data = Null THEN [kind |-> "throw", err |-> "type_error", env |-> E]
    ELSE IF data.t = "error" THEN [kind |-> "throw", err |-> "error_message", env |-> E]
    ELSE IF data.t = "note" THEN [kind |-> "throw", err |-> "soft_limit", env |-> E]
    ELSE [kind |-> "return", err |-> "", env |-> E]

\* searchCompanies from the value makeApiRequest returned at time t
searchCompaniesWith(E, key, data, t) ==
    IF data = Null THEN [kind |-> "throw", err |-> "type_error", env |-> E]
    ELSE IF data.t = "error" THEN [kind |-> "throw", err |-> "error_message", env |-> E]
    ELSE IF data.t = "note"
    THEN [kind |-> "throw", err |-> "soft_limit",
          env |-> [E EXCEPT !.cache = setCache(@, RateLimitKey(key), Sentinel(t), SentinelTtl, t)]]
    ELSE [kind |-> "return", err |-> "", env |-> E]

\* The observer of the 'Note' bodies the adapter was handed, per request key
LastNote(key) == IF key \in DOMAIN written THEN written[key] ELSE Null
Noted(key, data, t) ==
    IF data # Null /\ data.t = "note"
    THEN [k \in (DOMAIN written) \cup {key} |->
            IF k = key THEN [t |-> "note", at |-> t] ELSE written[k]]
    ELSE written

SearchOp(key, phase, a, outcome, err, fetched, data) ==
    [name |-> "searchCompanies", key |-> key, phase |-> phase, at |-> now,
     outcome |-> outcome, err |-> err, fetched |-> fetched,
     quota |-> a.rate = "allowed", lastNote |-> LastNote(key),
     note |-> data # Null /\ data.t = "note"]

\* searchCompanies(keywords) up to the fetch of its makeApiRequest
SearchCompanies(c) ==
    /\ c \in slots
    /\ calls[c].pc = "idle"
    /\ started < MaxSearches
    /\ \E keywords \in SearchKeywords :
       \E key \in {SearchKey(keywords)} :
       \E a \in {makeApiRequestStart(Env, key, now)} :
        IF a.kind = "await"
        THEN /\ calls' = [calls EXCEPT ![c] =
                    [IdleCall EXCEPT !.pc = "search", !.fn = "searchCompanies",
                                     !.arg = Str(keywords), !.symbol = key]]
             /\ SetEnv(a.env)
             /\ op' = SearchOp(key, "call", a, "await", "", TRUE, Null)
             /\ written' = written
        ELSE IF a.kind = "throw"
        THEN /\ calls' = calls
             /\ SetEnv(a.env)
             /\ op' = SearchOp(key, "call", a, "throw", a.err, FALSE, Null)
             /\ written' = written
        ELSE \E r \in {searchCompaniesWith(a.env, key, a.value, now)} :
             /\ calls' = calls
             /\ SetEnv(r.env)
             /\ op' = SearchOp(key, "call", a, r.kind, r.err, FALSE, a.value)
             /\ written' = Noted(key, a.value, now)
    /\ started' = started + 1
    /\ UNCHANGED <<clockVars, mockMode, mockData, slots, win, input>>

\* The response to the search arrives
SearchResponse(c) ==
    /\ calls[c].pc = "search"
    /\ \E key \in {calls[c].symbol} :
       \E resp \in SearchResponses(key) :
       \E f \in {makeApiRequestFinish(Env, key, resp, now)} :
        IF f.kind = "throw"
        THEN /\ SetEnv(f.env)
             /\ op' = SearchOp(key, "response", [rate |-> "allowed"], "throw", f.err, TRUE, Null)
             /\ written' = written
        ELSE \E r \in {searchCompaniesWith(f.env, key, f.value, now)} :
             /\ SetEnv(r.env)
             /\ op' = SearchOp(key, "response", [rate |-> "allowed"], r.kind, r.err, TRUE,
                               f.value)
             /\ written' = Noted(key, f.value, now)
    /\ calls' = [calls EXCEPT ![c] = IdleCall]
    /\ UNCHANGED <<clockVars, mockMode, mockData, slots, started, win, input>>

InitCooldown == InitUtilities
NextCooldown ==
    \/ Advance
    \/ \E c \in CallSlots : SearchCompanies(c)
    \/ \E c \in CallSlots : SearchResponse(c)
SpecCooldown == InitCooldown /\ [][NextCooldown]_vars

\* C20: once searchCompanies was handed a 'Note' body for a request, the
\* cooldown sentinel is in the cache under that request's key, and a call
\* for the same request less than 60 s later fails with a rate-limit error
\* without a network request, also when the global limiter has quota left.
C20_ProviderCooldown ==
    op.name = "searchCompanies" =>
        /\ op.note =>
            /\ op.outcome = "throw"
            /\ RateLimitKey(op.key) \in DOMAIN cache
            /\ cache[RateLimitKey(op.key)] = Item(Sentinel(op.at), op.at, SentinelTtl)
        /\ (op.phase = "call" /\ op.lastNote # Null /\ op.at - op.lastNote.at < 60000) =>
            /\ op.outcome = "throw"
            /\ ~op.fetched
            /\ op.err \in {"cooldown", "rate_limit"}
            /\ op.quota => op.err = "cooldown"

\* A search for "A" half a minute after the search for "a" was answered with
\* a 'Note' is refused although the limiter has quota
C20_Witness ==
    /\ op.name = "searchCompanies"
    /\ op.phase = "call"
    /\ op.lastNote # Null
    /\ op.at - op.lastNote.at = 30000
    /\ op.quota
    /\ op.err = "cooldown"
    /\ ~op.fetched
    /\ requestCount < MAX_REQUESTS_PER_MINUTE

-----------------------------------------------------------------------------
(* Mock mode: CONFIG.MOCK_MODE is true and mock-data.js is loaded *)

InitMock ==
    /\ InitClock /\ InitUtils /\ InitCalls /\ InitObs
    /\ mockMode = TRUE /\ mockData = TRUE
    /\ \E ts \in TokenStates :
        storedToken = ts.tok /\ tokenExpiry = ts.exp /\ urlHash = ts.hash
    /\ location = "app"
    /\ input \in AggregateArguments

\* The API functions the page calls, and the responses to the requests they
\* issue in mock mode
NextMock ==
    \/ Wait
    \/ \E c \in CallSlots : StartCall(c)
    \/ \E c \in CallSlots : RedditResponse(c)
    \/ \E c \in CallSlots : NewsApiResponse(c)
    \/ \E c \in CallSlots : Return(c)
    \/ \E c \in CallSlots : EarningsCalendarCall(c)
    \/ \E c \in CallSlots : EarningsCalendarResponse(c)
    \/ \E c \in CallSlots : SearchCompanies(c)
SpecMock == InitMock /\ [][NextMock]_vars

\* C21: with MOCK_MODE on and MockData available no API function issues a
\* network request: none was issued in the latest section and none is
\* awaited.
C21_MockModeNoRequests ==
    (mockMode /\ mockData) =>
        /\ \A e \in log : e.t # "request"
        /\ \A c \in slots :
            /\ calls[c].pc \notin {"calendar", "search"}
            /\ \A p \in Providers : calls[c].net[p] = "none"
        /\ op.name = "searchCompanies" => ~op.fetched

-----------------------------------------------------------------------------
(* Two getComprehensiveStockData calls for different tickers at once *)

\* The ticker each of the two calls is made for
TickerOf(c) == IF c = 1 THEN Str(<<"a", "B">>) ELSE Str(<<"B">>)

InitConcurrent ==
    /\ InitClock /\ InitUtils /\ InitObs
    /\ mockMode = FALSE /\ mockData = FALSE
    /\ storedToken = "" /\ tokenExpiry = 0 /\ urlHash = "token" /\ location = "app"
    /\ calls = [c \in CallSlots |-> IdleCall] /\ slots = CallSlots /\ started = 0
    /\ log = {}
    /\ input = Null

NextConcurrent ==
    \/ \E c \in CallSlots : StartCallOf(c, TickerOf(c))
    \/ \E c \in CallSlots : ProfileResponse(c)
    \/ \E c \in CallSlots : FinnhubResponse(c)
    \/ \E c \in CallSlots : RedditResponse(c)
    \/ \E c \in CallSlots : NewsApiResponse(c)
SpecConcurrent == InitConcurrent /\ [][NextConcurrent]_vars

\* A value of the record is absent or is the data of the given kind for the
\* given ticker
OwnData(v, of, sym) == v = Null \/ (v.t = "data" /\ v.of = of /\ v.sym = sym)
OwnNews(v, rec) ==
    \/ v = EmptyList
    \/ (v.t = "list" /\ v.from = "reddit" /\ v.about = rec.symbol)
    \/ (v.t = "list" /\ v.from = "newsapi" /\ v.about = CompanyName(rec))

\* C22: whatever the interleaving of the responses of two concurrent calls
\* for different tickers, the record of each call holds its own ticker and
\* the overview, quote, financials, earnings and news of that ticker.
C22_ConcurrentTickersSafe ==
    \A c \in CallSlots :
        calls[c].pc = "resolved" =>
            LET rec == calls[c]
                sym == formatTicker(TickerOf(c))
            IN  /\ rec.result.symbol = sym
                /\ rec.result.overview # Null
                /\ OwnData(rec.result.overview, "profile", sym)
                /\ OwnData(rec.result.quote, "quote", sym)
                /\ OwnData(rec.result.basicFinancials, "financials", sym)
                /\ OwnData(rec.result.earnings, "earnings", sym)
                /\ OwnNews(rec.result.news, rec)

\* Both calls resolved with a quote, the second one's requests having been
\* counted before the first one's were answered
C22_Witness ==
    /\ calls[1].pc = "resolved" /\ calls[2].pc = "resolved"
    /\ calls[1].result.quote # Null /\ calls[2].result.quote # Null
    /\ calls[1].result.quote # calls[2].result.quote
    /\ calls[1].result.news.from = "reddit" /\ calls[2].result.news.from = "newsapi"
    /\ FinnhubKey("quote", <<"B">>) \in DOMAIN cache
    /\ FinnhubKey("quote", <<"A", "B">>) \in DOMAIN cache

-----------------------------------------------------------------------------
(* Read-time eviction *)

\* The step is a getCache(k) made at the current time
IsGetCache(k) == op'.name = "getCache" /\ op'.key = k /\ op'.at = now /\ now' = now

\* C23: a getCache(k) made when the entry of k has expired returns null and
\* removes that entry, and only that entry, from the cache; a getCache(k)
\* made when the entry has not expired leaves the cache as it was.
C23_ReadTimeEviction ==
    [][\A k \in CacheKeys :
        IsGetCache(k) =>
            IF k \in DOMAIN cache /\ now - cache[k].timestamp > cache[k].ttl
            THEN /\ op'.result = Null
                 /\ k \notin DOMAIN cache'
                 /\ DOMAIN cache' = (DOMAIN cache) \ {k}
                 /\ \A j \in DOMAIN cache' : cache'[j] = cache[j]
            ELSE cache' = cache]_vars

\* A read made after the ttl of the last write had elapsed found nothing and
\* left no entry under the key, while another key kept its entry
C23_Witness ==
    /\ op.name = "getCache"
    /\ written[op.key] # Null
    /\ op.at - written[op.key].at > written[op.key].ttl
    /\ op.result = Null
    /\ op.key \notin DOMAIN cache
    /\ op.size = 1

-----------------------------------------------------------------------------
(* The rate limiter over a rolling minute *)

RECURSIVE Total(_, _)
Total(f, S) ==
    IF S = {} THEN 0
    ELSE LET u == CHOOSE x \in S : TRUE IN f[u] + Total(f, S \ {u})

\* The calls that returned true in the 60 s that start at time t
GrantedFrom(t) ==
    Total(op.granted, {u \in DOMAIN op.granted : u >= t /\ u - t < RateWindowMs})

\* C24: in any interval of 60 seconds, wherever it starts, at most
\* MAX_REQUESTS_PER_MINUTE calls of checkRateLimit() return true.
C24_RollingMinuteBound ==
    op.name = "checkRateLimit" =>
        \A t \in DOMAIN op.granted : GrantedFrom(t) <= MAX_REQUESTS_PER_MINUTE

-----------------------------------------------------------------------------
(* What makeApiRequest stores *)

\* The body of an HTTP-success response that reports a provider error
ProviderError(body) == body.t \in {"error", "note"}

\* C25: no cache entry holds the body of a response that carried a provider
\* error (an error field or a 'Note'): only successful fetches are cached.
C25_OnlySuccessCached ==
    \A k \in DOMAIN cache : ~ProviderError(cache[k].data)

-----------------------------------------------------------------------------
(* js/api.js: getCompanyNews *)

\* Calls of getCompanyNews tried in one behaviour
MaxNewsCalls == 3
NewsSymbols == {<<"a", "B">>, <<"A", "B">>, <<"B">>}

Bool(b) == [t |-> "boolean", b |-> b]
\* data.status of a News API body
StatusOf(body) ==
    IF body.t = "error" THEN Str(<<"e", "r", "r", "o", "r">>) ELSE Str(<<"o", "k">>)
\* data && !data.status === 'error': the negation binds before the comparison
CacheCondition(data) ==
    data # Null /\ Bool(Falsy(StatusOf(data))) = Str(<<"e", "r", "r", "o", "r">>)
\* data.articles || []
ArticlesOf(data) == IF data.articles = Null THEN EmptyList ELSE data.articles

\* getCompanyNews(symbol, pageSize) up to its fetch: the mock data, the cached
\* value, a throw of the limiter, or the wait for the News API
getCompanyNewsCall(E, sym, key, t) ==
    IF mockMode /\ mockData
    THEN [kind |-> "return", err |-> "", value |-> MockValue("news", sym), env |-> E]
    ELSE
    LET cachedData == getCache(E.cache, key, t)
        E1 == [E EXCEPT !.cache = getCacheEvict(@, key, t)]
        r == checkRateLimit(E.rl, t)
    IN  IF cachedData # Null
        THEN [kind |-> "return", err |-> "", value |-> cachedData, env |-> E1]
        ELSE IF ~r.ok
        THEN [kind |-> "throw", err |-> "rate_limit", value |-> Null,
              env |-> [E1 EXCEPT !.rl = [count |-> r.count, last |-> r.last]]]
        ELSE [kind |-> "await", err |-> "", value |-> Null,
              env |-> [E1 EXCEPT !.rl = [count |-> r.count, last |-> r.last]]]

\* getCompanyNews from the arrival of the response
getCompanyNewsAnswered(E, sym, key, resp, t) ==
    IF resp.kind = "neterr"
    THEN IF mockData
         THEN [kind |-> "return", err |-> "", value |-> MockValue("news", sym), env |-> E]
         ELSE [kind |-> "throw", err |-> "neterr", value |-> Null, env |-> E]
    ELSE IF resp.kind # "json"
    THEN [kind |-> "throw", err |-> resp.kind, value |-> Null, env |-> E]
    ELSE IF resp.body = Null
    THEN [kind |-> "throw", err |-> "type_error", value |-> Null, env |-> E]
    ELSE
    LET E1 == IF CacheCondition(resp.body)
              THEN [E EXCEPT !.cache = setCache(@, key, ArticlesOf(resp.body),
                                                CACHE_DURATION, t)]
              ELSE E
    IN  IF resp.body.t = "error"
        THEN [kind |-> "throw", err |-> "news_api", value |-> Null, env |-> E1]
        ELSE [kind |-> "return", err |-> "", value |-> ArticlesOf(resp.body), env |-> E1]

\* The observer of the value last fetched successfully, per cache key
LastFetched(key) == IF key \in DOMAIN written THEN written[key] ELSE Null
Fetched(key, r, t) ==
    IF r.kind = "return"
    THEN [k \in (DOMAIN written) \cup {key} |->
            IF k = key THEN [t |-> "fetched", value |-> r.value, at |-> t] ELSE written[k]]
    ELSE written

NewsOp(key, phase, r, fetched) ==
    [name |-> "getCompanyNews", key |-> key, phase |-> phase, at |-> now,
     outcome |-> r.kind, err |-> r.err, value |-> r.value, fetched |-> fetched,
     lastFetched |-> LastFetched(key)]

\* getCompanyNews(symbol, 5) up to its fetch
GetCompanyNews(c) ==
    /\ c \in slots
    /\ calls[c].pc = "idle"
    /\ started < MaxNewsCalls
    /\ \E symbol \in NewsSymbols :
       \E sym \in {formatTicker(Str(symbol))} :
       \E key \in {NewsKey(sym, PageSize)} :
       \E a \in {getCompanyNewsCall(Env, sym, key, now)} :
        /\ calls' = IF a.kind = "await"
                    THEN [calls EXCEPT ![c] =
                            [IdleCall EXCEPT !.pc = "news", !.fn = "getCompanyNews",
                                             !.arg = Str(symbol), !.symbol = sym]]
                    ELSE calls
        /\ SetEnv(a.env)
        /\ op' = NewsOp(key, "call", a, a.kind = "await")
    /\ started' = started + 1
    /\ UNCHANGED <<clockVars, mockMode, mockData, slots, written, win, input>>

\* The response of the News API arrives
CompanyNewsResponse(c) ==
    /\ calls[c].pc = "news"
    /\ \E sym \in {calls[c].symbol} :
       \E key \in {NewsKey(sym, PageSize)} :
       \E resp \in NewsApiResponses(sym) \cup {[kind |-> "neterr", body |-> Null],
                                               [kind |-> "json", body |-> Null]} :
       \E f \in {getCompanyNewsAnswered(Env, sym, key, resp, now)} :
        /\ SetEnv(f.env)
        /\ op' = NewsOp(key, "response", f, TRUE)
        /\ written' = Fetched(key, f, now)
    /\ calls' = [calls EXCEPT ![c] = IdleCall]
    /\ UNCHANGED <<clockVars, mockMode, mockData, slots, started, win, input>>

InitNews == InitUtilities
NextNews ==
    \/ Advance
    \/ \E c \in CallSlots : GetCompanyNews(c)
    \/ \E c \in CallSlots : CompanyNewsResponse(c)
SpecNews == InitNews /\ [][NextNews]_vars

\* C26: a getCompanyNews call made within the cache duration of a successful
\* fetch for the same ticker and page size returns the value fetched and
\* issues no network request.
C26_ServedFromCache ==
    (/\ op.name = "getCompanyNews"
     /\ op.phase = "call"
     /\ op.lastFetched # Null
     /\ op.at - op.lastFetched.at <= CACHE_DURATION) =>
        /\ ~op.fetched
        /\ op.outcome = "return"
        /\ op.value = op.lastFetched.value

-----------------------------------------------------------------------------
(* The order of the cache and the rate limiter *)

\* C27: a caching adapter called while the cache holds an unexpired value
\* under its key returns that value whatever quota the rate limiter has
\* left, and its checkRateLimit() counts no request for the hit.
C27_CacheBeforeLimiter ==
    \A e \in log :
        (e.t = "call" /\ e.adapter \in CachingAdapters
            /\ e.cached # Null /\ e.cached.t # "error") =>
                /\ e.outcome = "cached"
                /\ e.rate = "unchecked"

-----------------------------------------------------------------------------
(* The end of the cooldown *)

\* C28: a searchCompanies call made 60 s or more after the request's
\* cooldown sentinel was written, with quota left in the limiter, is not
\* refused by the cooldown and asks the provider again (unless it returns
\* matches fetched in the meantime).
C28_CooldownIsTimed ==
    (/\ op.name = "searchCompanies"
     /\ op.phase = "call"
     /\ op.lastNote # Null
     /\ op.at - op.lastNote.at >= CooldownMs
     /\ op.quota) =>
        /\ op.err # "cooldown"
        /\ op.fetched \/ op.outcome = "return"

-----------------------------------------------------------------------------
(* The timeline of the processed record *)

EventsOfType(timeline, type) == {i \in 1..Len(timeline) : timeline[i].type = type}

\* C29: the timeline processStockData attaches to the processed record holds
\* one earnings event for each earnings report of the record and one news
\* event for each news item.
C29_TimelineIsUnion ==
    op.name = "processStockData" =>
        /\ Cardinality(EventsOfType(op.timeline, "news")) = Len(input.news)
        /\ Cardinality(EventsOfType(op.timeline, "earnings")) = Len(input.earnings)
        /\ \A i \in 1..Len(input.earnings) :
            \E j \in 1..Len(op.timeline) : op.timeline[j] = EarningsEvent(input.earnings[i])

-----------------------------------------------------------------------------
(* Keyword matching *)

Substring(k, w) ==
    \E i \in 1..(Len(w) - Len(k) + 1) : SubSeq(w, i, i + Len(k) - 1) = k
Keywords(list) == {list[e] : e \in 1..Len(list)}
LowerWords(text) == split(toLowerCase(text))

\* The words of a text that contain a keyword of the list, and the pairs of
\* a word and a keyword it contains
WordsWithKeyword(text, list) ==
    {i \in 1..Len(LowerWords(text)) :
        \E k \in Keywords(list) : Substring(k, LowerWords(text)[i])}
KeywordsInWords(text, list) ==
    {<<i, k>> \in (1..Len(LowerWords(text))) \X Keywords(list) :
        Substring(k, LowerWords(text)[i])}

PositiveList == IF op.name = "analyzeSentiment" THEN positiveWords ELSE redditPositiveWords
NegativeList == IF op.name = "analyzeSentiment" THEN negativeWords ELSE redditNegativeWords

\* C30: for each list, a scorer counts every word of the text that contains
\* a keyword of the list as a substring, whatever its case ('Profits' counts
\* for 'profit'), and counts no keyword more than once for one word.
C30_SubstringPerWord ==
    op.name \in {"analyzeSentiment", "analyzeRedditSentiment"} =>
        /\ op.result.positiveCount >= Cardinality(WordsWithKeyword(input.s, PositiveList))
        /\ op.result.positiveCount <= Cardinality(KeywordsInWords(input.s, PositiveList))
        /\ op.result.negativeCount >= Cardinality(WordsWithKeyword(input.s, NegativeList))
        /\ op.result.negativeCount <= Cardinality(KeywordsInWords(input.s, NegativeList))

-----------------------------------------------------------------------------
(* Expired entries and the reported size *)

\* C31: an expired entry is to the callers as one never stored: the size
\* getCacheStats reports (that of getCacheSize) counts only the entries that
\* have not expired, and a getCache of an expired entry returns null.
C31_ExpiredEqualsNeverStored ==
    /\ op.name = "getCacheStats" => op.result.cacheSize = op.live
    /\ (op.name = "getCache" /\ written[op.key] # Null
            /\ op.at - written[op.key].at > written[op.key].ttl) => op.result = Null

-----------------------------------------------------------------------------
(* Two calls for one ticker *)

SameTicker == Str(<<"a", "B">>)
\* The page was opened without a Reddit token: the news come from the News
\* API alone
InitOverlap ==
    /\ InitClock /\ InitUtils /\ InitObs
    /\ mockMode = FALSE /\ mockData = FALSE
    /\ storedToken = "" /\ tokenExpiry = 0 /\ urlHash = "none" /\ location = "app"
    /\ calls = [c \in CallSlots |-> IdleCall] /\ slots = CallSlots /\ started = 0
    /\ log = {}
    /\ input = Null
NextOverlap ==
    \/ \E c \in CallSlots : StartCallOf(c, SameTicker)
    \/ \E c \in CallSlots : ProfileResponse(c)
    \/ \E c \in CallSlots : FinnhubResponse(c)
    \/ \E c \in CallSlots : NewsApiResponse(c)
SpecOverlap == InitOverlap /\ [][NextOverlap]_vars

\* The step starts call c while call d waits for its profile response
StartsDuring(c, d) ==
    /\ c # d
    /\ calls[c].pc = "idle" /\ calls'[c].pc # "idle"
    /\ calls[d].pc = "profile"

\* C32: a getComprehensiveStockData call started while another call for the
\* same ticker waits for its profile response is not merged with it: it
\* misses the cache, has its own profile request counted and sent, and a
\* call whose own profile request was answered with data completes with a
\* record that holds that answer.
C32_NoInFlightDeduplication ==
    [][\A c, d \in CallSlots :
        /\ StartsDuring(c, d) =>
            /\ FinnhubKey("profile", calls[d].symbol) \notin DOMAIN cache
            /\ calls'[c].pc = "profile"
            /\ calls'[c].net["profile"] = "pending"
            /\ requestCount' = requestCount + 1
            /\ calls'[d] = calls[d]
        /\ (calls'[c].pc = "resolved" /\ calls'[c].net["profile"] = "ok") =>
            calls'[c].result.overview = calls'[c].got["profile"]]_vars

\* Both calls went to the network for the profile and both completed with a
\* record
C32_Witness ==
    /\ calls[1].pc = "resolved" /\ calls[2].pc = "resolved"
    /\ calls[1].net["profile"] = "ok" /\ calls[2].net["profile"] = "ok"
    /\ calls[1].result.overview # Null /\ calls[2].result.overview # Null

-----------------------------------------------------------------------------
(* Termination of the aggregation *)

\* One call, with or without a Reddit token, with or without mock-data.js
InitSettle ==
    /\ InitClock /\ InitUtils /\ InitCalls /\ InitObs
    /\ mockMode = FALSE /\ mockData \in BOOLEAN
    /\ storedToken = "" /\ tokenExpiry = 0 /\ urlHash \in {"none", "token", "error"}
    /\ location = "app"
    /\ input \in AggregateArguments
NextSettle ==
    \/ \E c \in CallSlots : StartCall(c)
    \/ \E c \in CallSlots : ProfileResponse(c)
    \/ \E c \in CallSlots : FinnhubResponse(c)
    \/ \E c \in CallSlots : RedditResponse(c)
    \/ \E c \in CallSlots : NewsApiResponse(c)
SpecSettle == InitSettle /\ [][NextSettle]_vars
\* Every provider request is answered in the end.
\* Weak fairness of the arrival of responses, written out as
\* []<>(not enabled) \/ []<>(taken): a response can arrive exactly when a
\* request is in flight, and every response changes the call it belongs to
AwaitingResponse == \E c \in CallSlots : \E p \in Providers : calls[c].net[p] = "pending"
FairSettle ==
    /\ SpecSettle
    /\ ([]<>(~AwaitingResponse) \/ []<><<calls' # calls>>_vars)

Waiting(c) == calls[c].pc \in {"profile", "join"}
Completed(c) == calls[c].pc \in {"resolved", "rejected"}
InFlight(c) == {p \in Providers : calls[c].net[p] = "pending"}

\* C33: a call that has not resolved or rejected has a provider request in
\* flight, and when every provider request is answered in the end every
\* call resolves with a record or rejects in the end.
C33_Termination ==
    /\ [](\A c \in CallSlots : Waiting(c) => InFlight(c) # {})
    /\ \A c \in CallSlots : Waiting(c) ~> Completed(c)

\* A call resolved although the quote, financials and earnings requests
\* all failed
C33_Witness ==
    /\ calls[1].pc = "resolved"
    /\ \A p \in {"quote", "financials", "earnings"} : calls[1].net[p] = "failed"
    /\ calls[1].net["newsapi"] = "failed"
    /\ InFlight(1) = {}

-----------------------------------------------------------------------------
(* Mock data in live mode *)

IsMock(v) == v.t = "mock"

\* C34: with MOCK_MODE off no adapter hands out MockData values: a failed
\* profile request rejects the call, a failed quote request rejects the
\* quote, and neither the profile nor the quote of a call is a mock value.
C34_NoMockInLiveMode ==
    ~mockMode =>
        \A c \in CallSlots :
            /\ ~IsMock(calls[c].profile)
            /\ ~IsMock(calls[c].sub["quote"].value)
            /\ calls[c].net["profile"] = "failed" => calls[c].pc = "rejected"
            /\ calls[c].net["quote"] = "failed" => calls[c].sub["quote"].st = "rejected"

-----------------------------------------------------------------------------
(* utils.js: retry *)

\* Largest maxRetries tried
MaxRetriesTried == 4
BaseDelays == {0, 500, 1000}
RetryArguments ==
    {[t |-> "retry", maxRetries |-> m, baseDelay |-> d] :
        m \in 0..MaxRetriesTried, d \in BaseDelays}

\* Math.pow(2, i)
RECURSIVE Pow2(_)
Pow2(i) == IF i = 0 THEN 1 ELSE 2 * Pow2(i - 1)

\* The loop head `i < maxRetries` of retry: the next attempt, or the end of
\* the function (which returns undefined)
retryLoop(r, args) ==
    IF r.i < args.maxRetries
    THEN [r EXCEPT !.pc = "attempt"]
    ELSE [r EXCEPT !.pc = "returned", !.result = Undefined]

\* A retry that sleeps after the last failure as after the others
retryAttemptNoRethrow(r, args, ok, v) ==
    IF ok
    THEN [r EXCEPT !.pc = "returned", !.result = Num(v), !.outcomes = Append(@, "ok")]
    ELSE [r EXCEPT !.pc = "sleep", !.delay = args.baseDelay * Pow2(r.i),
                   !.outcomes = Append(@, "failed")]

\* The body of the loop: await fn() returned v (ok) or threw its error
retryAttempt(r, args, ok, v) ==
    IF ok
    THEN [r EXCEPT !.pc = "returned", !.result = Num(v), !.outcomes = Append(@, "ok")]
    ELSE IF r.i = args.maxRetries - 1
    THEN [r EXCEPT !.pc = "thrown", !.err = Len(r.outcomes) + 1,
                   !.outcomes = Append(@, "failed")]
    ELSE [r EXCEPT !.pc = "sleep", !.delay = args.baseDelay * Pow2(r.i),
                   !.outcomes = Append(@, "failed")]

\* retry(fn, maxRetries, baseDelay) is called
RetryCall ==
    /\ op = NoOp
    /\ op' = retryLoop([name |-> "retry", pc |-> "attempt", i |-> 0, outcomes |-> <<>>,
                        waited |-> <<>>, delay |-> 0, result |-> Null, err |-> 0,
                        at |-> now], input)
    /\ UNCHANGED <<clockVars, utilVars, pageVars, callVars, written, win, input>>

\* fn() settles: it returns a value or throws the error of this attempt
RetryAttempt ==
    /\ op.name = "retry" /\ op.pc = "attempt"
    /\ \E ok \in BOOLEAN, v \in {1, 2} : op' = retryAttempt(op, input, ok, v)
    /\ UNCHANGED <<clockVars, utilVars, pageVars, callVars, written, win, input>>

\* await sleep(delay) is over; i++ and back to the loop head
RetrySleep ==
    /\ op.name = "retry" /\ op.pc = "sleep"
    /\ now' = now + op.delay
    /\ op' = retryLoop([op EXCEPT !.i = @ + 1, !.waited = Append(@, op.delay)], input)
    /\ UNCHANGED <<advances, utilVars, pageVars, callVars, written, win, input>>

InitRetry == InitIdle /\ input \in RetryArguments
NextRetry == RetryCall \/ RetryAttempt \/ RetrySleep
SpecRetry == InitRetry /\ [][NextRetry]_vars

RECURSIVE SumOf(_)
SumOf(seq) == IF seq = <<>> THEN 0 ELSE Head(seq) + SumOf(Tail(seq))

\* C35: retry invokes fn at most maxRetries times; every attempt before the
\* last one made has failed; it returns the value of the first successful
\* attempt; it throws only after maxRetries failures, and then the error of
\* the last one; and before the attempt that follows the i-th failure
\* (counted from 0) it has waited baseDelay * 2^i.
C35_RetryHelper ==
    op.name = "retry" =>
        LET n == Len(op.outcomes) IN
        /\ n <= input.maxRetries
        /\ \A k \in 1..(n - 1) : op.outcomes[k] = "failed"
        /\ (op.pc = "returned" /\ input.maxRetries > 0) =>
            (n > 0 /\ op.outcomes[n] = "ok" /\ op.result.t = "number")
        /\ (n > 0 /\ op.outcomes[n] = "ok") => op.pc = "returned"
        /\ op.pc = "thrown" =>
            (n = input.maxRetries /\ op.outcomes[n] = "failed" /\ op.err = n)
        /\ \A k \in 1..Len(op.waited) : op.waited[k] = input.baseDelay * Pow2(k - 1)
        /\ op.pc = "attempt" => Len(op.waited) = n
        /\ (op.pc \in {"returned", "thrown"} /\ n > 0) => Len(op.waited) = n - 1
        /\ now = op.at + SumOf(op.waited)

\* The fourth attempt succeeded after waits of 1000, 2000 and 4000 ms
C35_Witness ==
    /\ op.name = "retry"
    /\ op.pc = "returned"
    /\ op.outcomes = <<"failed", "failed", "failed", "ok">>
    /\ op.waited = <<1000, 2000, 4000>>
    /\ now = op.at + 7000

-----------------------------------------------------------------------------
(* main.js (README.md): searchStock *)

\* Calls of searchStock tried in one behaviour
MaxSearchStockCalls == 6

\* The globals of main.js (isLoading) beside the observer's counts: the
\* searchStock calls made, those ignored, the getComprehensiveStockData
\* calls made, and the searches that ended in the catch block
MainAtLoad ==
    [name |-> "searchStock", isLoading |-> FALSE, made |-> 0, ignored |-> 0,
     aggregations |-> 0, failed |-> 0]
Main == IF op.name = "searchStock" THEN op ELSE MainAtLoad

SearchStockArguments == {Str(<<"a", "B">>), Str(<<"B">>), Str(<<" ", "c">>)}

\* searchStock(ticker) up to its await
searchStockCall(m) ==
    IF m.isLoading
    THEN [m EXCEPT !.made = @ + 1, !.ignored = @ + 1]
    ELSE [m EXCEPT !.made = @ + 1, !.isLoading = TRUE, !.aggregations = @ + 1]

\* A searchStock that clears the flag on the success path only
searchStockSettledNoFinally(m, outcome) ==
    IF outcome = "resolved"
    THEN [m EXCEPT !.isLoading = FALSE]
    ELSE [m EXCEPT !.failed = @ + 1]

\* searchStock from the settling of getComprehensiveStockData: the try block
\* goes on or the catch block runs, and the finally block clears the flag
searchStockSettled(m, outcome) ==
    IF outcome = "resolved"
    THEN [m EXCEPT !.isLoading = FALSE]
    ELSE [m EXCEPT !.isLoading = FALSE, !.failed = @ + 1]

SearchStock(c) ==
    /\ calls[c].pc = "idle"
    /\ location = "app"
    /\ Main.made < MaxSearchStockCalls
    /\ op' = searchStockCall(Main)
    /\ \E ticker \in SearchStockArguments :
        calls' = IF Main.isLoading THEN calls
                 ELSE [calls EXCEPT ![c] =
                        [IdleCall EXCEPT !.pc = "searching", !.fn = "searchStock",
                                         !.arg = ticker, !.symbol = formatTicker(ticker)]]
    /\ UNCHANGED <<clockVars, utilVars, pageVars, slots, started, log, written, win, input>>

\* getComprehensiveStockData settles: it resolves (and the page goes to
\* ticker.html), it rejects, or processStockData throws on its record
SearchStockSettles(c) ==
    /\ calls[c].pc = "searching"
    /\ \E outcome \in {"resolved", "rejected", "processing_failed"} :
        /\ op' = searchStockSettled(Main, outcome)
        /\ location' = IF outcome = "resolved" THEN "ticker" ELSE location
    /\ calls' = [calls EXCEPT ![c] = IdleCall]
    /\ UNCHANGED <<clockVars, utilVars, mockMode, mockData, storedToken, tokenExpiry,
                   urlHash, slots, started, log, written, win, input>>

InitMain == InitIdle /\ input = Null
NextMain ==
    \/ \E c \in CallSlots : SearchStock(c)
    \/ \E c \in CallSlots : SearchStockSettles(c)
SpecMain == InitMain /\ [][NextMain]_vars

Searching == {c \in CallSlots : calls[c].pc = "searching"}
\* The step is a call of searchStock
IsSearchStockCall == (Main.made)' = Main.made + 1

\* C36: at most one aggregation runs at a time and isLoading is set exactly
\* while one runs; a searchStock call made while isLoading is set starts no
\* aggregation, and one made after the running call ended, by success or by
\* failure, starts one.
C36_SingleSearchInFlight ==
    /\ [](Cardinality(Searching) <= 1 /\ (Main.isLoading <=> Searching # {}))
    /\ [][IsSearchStockCall =>
            IF Searching # {}
            THEN calls' = calls /\ (Main.aggregations)' = Main.aggregations
            ELSE (Main.aggregations)' = Main.aggregations + 1 /\ Searching' # {}]_vars

\* A call was ignored, the running search failed, and the next call was
\* accepted
C36_Witness ==
    /\ Main.ignored = 1
    /\ Main.failed = 1
    /\ Main.aggregations = 2
    /\ Main.isLoading
    /\ Searching # {}

-----------------------------------------------------------------------------
(* data.js: getNewsSummary *)

\* Most articles of a list handed to processNewsArticles
MaxArticles == 3
SummaryTitles ==
    {<<>>, <<"g", "r", "o", "w", "t", "h">>, <<"c", "r", "a", "s", "h">>,
     <<"l", "a", "u", "n", "c", "h">>}
ArticleLists == UNION {[1..k -> SummaryTitles] : k \in 0..MaxArticles}

\* processNewsArticles(articles), for articles without a description: the
\* sentiment of an article is the object analyzeSentiment returns
processNewsArticles(titles) ==
    [i \in 1..Len(titles) |->
        [title |-> titles[i],
         sentiment |-> analyzeSentiment(titles[i] \o <<" ">>),
         category |-> categorizeNews(titles[i] \o <<" ">>)]]

\* The property key object[value] uses for a value that is a plain object
\* (as every article.sentiment is): its string form
PropertyKey(v) == "[object Object]"

\* object[key]++ on a property that is a number, or is missing (undefined++
\* leaves NaN)
Increment(counts, key) ==
    [k \in (DOMAIN counts) \cup {key} |->
        IF k # key THEN counts[k]
        ELSE IF key \in DOMAIN counts /\ ~counts[key].nan
        THEN Finite(counts[key].n + 1) ELSE NaN]

\* articles.forEach(article => { sentimentCounts[article.sentiment]++; ... })
RECURSIVE CountSentiments(_, _)
CountSentiments(articles, counts) ==
    IF articles = <<>> THEN counts
    ELSE CountSentiments(Tail(articles),
                         Increment(counts, PropertyKey(Head(articles).sentiment)))
RECURSIVE CountCategories(_, _)
CountCategories(articles, counts) ==
    IF articles = <<>> THEN counts
    ELSE CountCategories(Tail(articles),
            [k \in (DOMAIN counts) \cup {Head(articles).category} |->
                IF k = Head(articles).category
                THEN (IF k \in DOMAIN counts THEN counts[k] + 1 ELSE 1)
                ELSE counts[k]])
RECURSIVE TotalScore(_)
TotalScore(articles) ==
    IF articles = <<>> THEN 0
    ELSE Head(articles).sentiment.score + TotalScore(Tail(articles))

SentimentLabels == {"positive", "negative", "neutral"}

\* getNewsSummary(articles); the average is kept as total score / length
getNewsSummary(articles) ==
    IF articles = <<>>
    THEN [total |-> 0, positive |-> Finite(0), negative |-> Finite(0), neutral |-> Finite(0),
          averageSentiment |-> [num |-> 0, den |-> 1], categories |-> <<>>]
    ELSE LET counts == CountSentiments(articles, [l \in SentimentLabels |-> Finite(0)])
         IN  [total |-> Len(articles),
              positive |-> counts["positive"],
              negative |-> counts["negative"],
              neutral |-> counts["neutral"],
              averageSentiment |-> [num |-> TotalScore(articles), den |-> Len(articles)],
              categories |-> CountCategories(articles, <<>>)]

\* processStockData: processed.newsSummary =
\* getNewsSummary(processNewsArticles(stockData.news))
GetNewsSummary ==
    /\ op = NoOp
    /\ op' = [name |-> "getNewsSummary", articles |-> processNewsArticles(input.titles),
              result |-> getNewsSummary(processNewsArticles(input.titles))]
    /\ UNCHANGED <<clockVars, utilVars, pageVars, callVars, written, win, input>>

InitSummary == InitIdle /\ input \in {[t |-> "articles", titles |-> l] : l \in ArticleLists}
NextSummary == GetNewsSummary
SpecSummary == InitSummary /\ [][NextSummary]_vars

Labelled_(articles, label) ==
    {i \in 1..Len(articles) : articles[i].sentiment.sentiment = label}

\* C37: for the articles processNewsArticles produced, getNewsSummary counts
\* under each of positive, negative and neutral the articles with that
\* sentiment label, and the three counts add up to the total.
C37_SummaryCounts ==
    op.name = "getNewsSummary" =>
        /\ \A l \in SentimentLabels :
            /\ ~op.result[l].nan
            /\ op.result[l].n = Cardinality(Labelled_(op.articles, l))
        /\ op.result.positive.n + op.result.negative.n + op.result.neutral.n
            = op.result.total

-----------------------------------------------------------------------------
(* The frame of checkRateLimit *)

\* The call found the window more than 60 s old
RolledOver == op.at - op.lastBefore > RateWindowMs

\* C38 as stated: a call that returns false leaves requestCount and
\* lastRequestTime as they were, a call that returns true leaves
\* requestCount one higher than it found it, and requestCount never exceeds
\* MAX_REQUESTS_PER_MINUTE.
C38_DeniedChangesNothing ==
    op.name = "checkRateLimit" =>
        /\ ~op.result => (requestCount = op.countBefore /\ lastRequestTime = op.lastBefore)
        /\ op.result => requestCount = op.countBefore + 1
        /\ requestCount <= MAX_REQUESTS_PER_MINUTE

\* C38, amended: a call that returns false leaves requestCount and
\* lastRequestTime as they were; a call that returns true in the current
\* window leaves requestCount one higher and lastRequestTime as it was; a
\* call that finds the window more than 60 s old returns true, sets
\* requestCount to 1 and lastRequestTime to now; requestCount never exceeds
\* MAX_REQUESTS_PER_MINUTE.
C38_DeniedChangesNothingAmended ==
    op.name = "checkRateLimit" =>
        /\ ~op.result => (requestCount = op.countBefore /\ lastRequestTime = op.lastBefore)
        /\ (op.result /\ ~RolledOver) =>
            (requestCount = op.countBefore + 1 /\ lastRequestTime = op.lastBefore)
        /\ RolledOver => (op.result /\ requestCount = 1 /\ lastRequestTime = op.at)
        /\ requestCount <= MAX_REQUESTS_PER_MINUTE

\* A call refused in a window that was opened by a rollover
C38_Witness ==
    /\ op.name = "checkRateLimit"
    /\ ~op.result
    /\ op.lastBefore > StartTime
    /\ requestCount = MAX_REQUESTS_PER_MINUTE
    /\ lastRequestTime = op.lastBefore

-----------------------------------------------------------------------------
(* config.js: processFinnhubQuote, then formatStockDataForDisplay *)

EmptyObject == [t |-> "empty"]

\* parseFloat of a number: the number itself
parseFloat(x) == x

\* data.f ? parseFloat(data.f) : null
ParsedOrNull(x) == IF Not(x) THEN Null ELSE parseFloat(x)

\* processFinnhubQuote(data); lastUpdated, the time of the call, is left out
processFinnhubQuote(data) ==
    IF Not(data) \/ data = EmptyObject THEN Null
    ELSE [t |-> "object",
          symbol |-> Str(<<>>),
          price |-> ParsedOrNull(data.c),
          change |-> ParsedOrNull(data.d),
          changePercent |-> ParsedOrNull(data.dp),
          volume |-> Null,
          high |-> ParsedOrNull(data.h),
          low |-> ParsedOrNull(data.l),
          open |-> ParsedOrNull(data.o),
          previousClose |-> ParsedOrNull(data.pc)]

\* Finnhub /quote bodies: no body, {}, and quotes in whole dollars with a
\* session that went down, nowhere, or up
RawQuotes ==
    {Null, EmptyObject}
    \cup {[t |-> "object", c |-> Num(pc + d), d |-> Num(d), dp |-> Num(dp),
           h |-> Num(h), l |-> Num(l), o |-> Num(o), pc |-> Num(pc)] :
            pc \in {0, 2, 150}, d \in {0 - 2, 0, 3}, dp \in {0 - 1, 0, 2},
            h \in {0, 153}, l \in {0, 148}, o \in {0, 150}}

ProcessFinnhubQuote ==
    /\ op = NoOp
    /\ op' = [name |-> "processFinnhubQuote", result |-> processFinnhubQuote(input)]
    /\ UNCHANGED <<clockVars, utilVars, pageVars, callVars, written, win, input>>

\* The processed quote is displayed, with no overview beside it
DisplayQuote ==
    /\ op.name = "processFinnhubQuote"
    /\ op' = [name |-> "formatStockDataForDisplay",
              quote |-> op.result,
              result |-> formatStockDataForDisplay(
                             [t |-> "stockData", overview |-> Null, quote |-> op.result])]
    /\ UNCHANGED <<clockVars, utilVars, pageVars, callVars, written, win, input>>

InitQuote == InitIdle /\ input \in RawQuotes
NextQuote == ProcessFinnhubQuote \/ DisplayQuote
SpecQuote == InitQuote /\ [][NextQuote]_vars

\* The provider sent a quote whose session change is 0
ZeroChange == input \notin {Null, EmptyObject} /\ input.d = Num(0)

\* C39: a quote whose provider value d is numerically 0 is normalized by
\* processFinnhubQuote to change = 0, and formatStockDataForDisplay shows that
\* change as a formatted zero, "$0.00", not as null or 'N/A'.
C39_ZeroIsAValue ==
    ZeroChange =>
        /\ op.name = "processFinnhubQuote" => op.result.change = Num(0)
        /\ op.name = "formatStockDataForDisplay" =>
            /\ op.quote.change = Num(0)
            /\ op.result.change = formatCurrency(Num(0))
            /\ op.result.change # NotAvailable

\* What the code does with a zero change: null, then 'N/A'
C39_ZeroBecomesNotAvailable ==
    ZeroChange =>
        /\ op.name = "processFinnhubQuote" => op.result.change = Null
        /\ op.name = "formatStockDataForDisplay" =>
            (op.quote.change = Null /\ op.result.change = NotAvailable)

====
